---- MODULE Spec2Model ----
(***************************************************************************)
(* Model of the identifier remapping of scripts/convert_to_athena_format.py *)
(* (build_uuid_mapping, convert_all_ids, update_all_references, the UUID    *)
(* substitution loop of process_ccda_xml and add_identifiers) and of the    *)
(* check runner of scripts/validate_patient.py (load_bundle,                *)
(* run_all_validations, validate_resource_ids, main).  Further parts: the   *)
(* steps of convert_to_athena_format that create, remove and sort entries  *)
(* and write the bundle, the recursion of update_all_references, the checks *)
(* of the validator on medications, compositions, dependency order and     *)
(* encounter references, main of scripts/generate_addon.py and             *)
(* scripts/split_bundle_by_resource.py.                                    *)
(*                                                                         *)
(* Strings are sequences of one-character strings, so that formatting      *)
(* (prefix + digits), str.isdigit, str.startswith, str.count and           *)
(* str.replace are computed character by character.  The numeric ranges of *)
(* ID_RANGES are scaled down: the shape of the table is kept (a singleton  *)
(* range for Patient, pairwise disjoint ranges for the other types) while  *)
(* each range holds RangeSize values instead of millions.                  *)
(***************************************************************************)
EXTENDS Integers, Sequences, FiniteSets, TLC

\* ------------------------------------------------------------------ bounds
MaxEntries == 2
MaxAllocEntries == 3
RangeSize == 2
MaxXmlLen == 4
MaxRewriteEntries == 2
MaxValidatedEntries == 2
MaxIdentifiers == 3
MaxSortedEntries == 3
MaxEncounterEntries == 3
MaxSplitEntries == 2
MaxNestedValues == 1
MaxGeneratingEntries == 2
MaxCheckedEntries == 2

\* ----------------------------------------------------------------- strings
Digits == <<"0", "1", "2", "3", "4", "5", "6", "7", "8", "9">>

DigitSet == {Digits[i] : i \in 1..10}

\* str.isdigit(): non-empty and every character a digit
isdigit(s) == Len(s) > 0 /\ \A i \in 1..Len(s) : s[i] \in DigitSet

\* f"{n}" for a non-negative integer
RECURSIVE str(_)
str(n) == IF n < 10 THEN <<Digits[n + 1]>>
          ELSE str(n \div 10) \o <<Digits[(n % 10) + 1]>>

DigitValue(c) == CHOOSE d \in 0..9 : Digits[d + 1] = c

\* int(s) for a string of digits
RECURSIVE int(_)
int(s) == IF Len(s) = 0 THEN 0
          ELSE 10 * int(SubSeq(s, 1, Len(s) - 1)) + DigitValue(s[Len(s)])

\* str.startswith
startswith(s, p) == Len(s) >= Len(p) /\ SubSeq(s, 1, Len(p)) = p

\* Python's None for a numeric result, and the absent / empty string
None == -1
NoString == <<>>

\* ------------------------------------------------------------ configuration
\* ID_RANGES, scaled (the rows of the types used here): Patient keeps its
\* singleton range, the others are disjoint ranges of RangeSize values, twice
\* as many for DiagnosticReport, whose range is also entered at an offset
\* ("Device" stands for a resource type without an entry).
ID_RANGES ==
    [Patient           |-> <<10, 10>>,
     Encounter         |-> <<20, 20 + RangeSize - 1>>,
     Condition         |-> <<40, 40 + RangeSize - 1>>,
     Observation       |-> <<60, 60 + RangeSize - 1>>,
     DiagnosticReport  |-> <<100, 100 + 2 * RangeSize - 1>>,
     MedicationRequest |-> <<120, 120 + RangeSize - 1>>,
     Binary            |-> <<220, 220 + RangeSize - 1>>,
     ImagingStudy      |-> <<250, 250 + RangeSize - 1>>,
     Composition       |-> <<320, 320 + RangeSize - 1>>,
     Medication        |-> <<350, 350 + RangeSize - 1>>]

ID_PREFIXES == [t \in DOMAIN ID_RANGES |-> "t"]

\* ID_PREFIXES.get(resource_type, 'x')
PrefixOf(resource_type) ==
    IF resource_type \in DOMAIN ID_PREFIXES THEN ID_PREFIXES[resource_type] ELSE "x"

\* f"{prefix}{numeric_part}"
AlphanumericId(resource_type, numeric_part) ==
    <<PrefixOf(resource_type)>> \o str(numeric_part)

\* ------------------------------------------------------------------- state
VARIABLES
    bundle,                \* the entries of the FHIR bundle being converted
    base_patient_id,       \* the caller-supplied patient id
    uuid_map,              \* key -> <<alphanumeric_id, resource_type>>
    all_used_ids,          \* numeric ids issued in this run, all types
    idx,                   \* position of the loop in progress
    pc,                    \* the pipeline stage that runs next
    run,                   \* 1 for the first conversion, 2 for a repeated one
    error,                 \* resource type named by the ValueError, if raised
    reference_count,       \* update_all_references: references updated
    conditional_ref_count, \* ... of which conditional
    snapshot,              \* history: the bundle when the current run began
    assigned,              \* history: identifier issued for each entry this run
    last_alloc,            \* history: the last non-Patient allocation attempt
    xml_in,                \* history: serialized XML before substitution
    xml_content,           \* serialized XML being rewritten
    xml_keys,              \* keys of uuid_map still to be iterated, in order
    bundle_file,           \* validator: what --input names
    results,               \* validator: self.results
    exit_status,           \* status the process ends with
    resources_by_type,     \* split_bundle_by_resource: resources grouped by type
    patient_id,            \* split_bundle_by_resource: id used in the file names
    files,                 \* split_bundle_by_resource: file name -> entries written
    args,                  \* generate_addon.main: the command line and the clock
    stages,                \* generate_addon.main: the stages entered, in order
    modules_folder         \* generate_addon.main: addon modules in the modules folder

vars == <<bundle, base_patient_id, uuid_map, all_used_ids, idx, pc, run, error,
          reference_count, conditional_ref_count, snapshot, assigned,
          last_alloc, xml_in, xml_content, xml_keys,
          bundle_file, results, exit_status,
          resources_by_type, patient_id, files, args, stages, modules_folder>>

validatorVars == <<bundle_file, results, exit_status>>

xmlVars == <<xml_in, xml_content, xml_keys>>

countVars == <<reference_count, conditional_ref_count>>

splitVars == <<resources_by_type, patient_id, files>>

addonVars == <<args, stages, modules_folder>>

\* ------------------------------------------------------------ dictionaries
EmptyMap == [k \in {} |-> <<>>]

\* d[k] = v
Put(d, k, v) == [x \in (DOMAIN d) \cup {k} |-> IF x = k THEN v ELSE d[x]]

\* ------------------------------------------------------ build_uuid_mapping
\* The probing loop with one attempt too few (range(max_attempts - 1)).
ProbeSkipsLast(start_range, end_range, random_offset, used) ==
    LET size == end_range - start_range + 1
        max_attempts == size - 1
        test_id(attempt) == start_range + ((random_offset + attempt) % size)
        free == {attempt \in 0..(max_attempts - 1) : test_id(attempt) \notin used}
    IN  IF free = {} THEN None
        ELSE test_id(CHOOSE a \in free : \A b \in free : a <= b)

\* The probing loop: the first test_id, over attempt = 0 .. max_attempts-1,
\* that is not in all_used_ids; None when the loop ends without one.
Probe(start_range, end_range, random_offset, used) ==
    LET max_attempts == end_range - start_range + 1
        test_id(attempt) ==
            start_range + ((random_offset + attempt) % (end_range - start_range + 1))
        free == {attempt \in 0..(max_attempts - 1) : test_id(attempt) \notin used}
    IN  IF free = {} THEN None
        ELSE test_id(CHOOSE a \in free : \A b \in free : a <= b)

\* The loop over resource.get('identifier', []): a value is mapped to the
\* entity's identifier unless it is empty or already a key of uuid_map.
RECURSIVE MapIdentifiers(_, _, _)
MapIdentifiers(m, identifiers, target) ==
    IF identifiers = <<>> THEN m
    ELSE LET value == Head(identifiers).value
             m2 == IF value # NoString /\ value \notin DOMAIN m
                   THEN Put(m, value, target) ELSE m
         IN  MapIdentifiers(m2, Tail(identifiers), target)

\* uuid_map after an entry received numeric_part
MapEntry(m, resource, numeric_part) ==
    LET alphanumeric_id == AlphanumericId(resource.resourceType, numeric_part)
        target == <<alphanumeric_id, resource.resourceType>>
    IN  MapIdentifiers(Put(m, resource.id, target), resource.identifier, target)

Building == pc = "build_uuid_mapping" /\ idx <= Len(bundle)

\* `continue`: no resourceType or id, or an id that is all digits
BuildSkip ==
    /\ Building
    /\ LET resource == bundle[idx]
       IN  \/ resource.resourceType = ""
           \/ resource.id = NoString
           \/ isdigit(resource.id)
    /\ idx' = idx + 1
    /\ UNCHANGED <<bundle, base_patient_id, uuid_map, all_used_ids, pc, run, error,
                   snapshot, assigned, last_alloc>>
    /\ UNCHANGED countVars /\ UNCHANGED xmlVars /\ UNCHANGED validatorVars
    /\ UNCHANGED splitVars /\ UNCHANGED addonVars

\* the else branch: no ID range for the type, a warning is printed
BuildWarnNoRange ==
    /\ Building
    /\ LET resource == bundle[idx]
       IN  /\ resource.resourceType # ""
           /\ resource.id # NoString
           /\ ~isdigit(resource.id)
           /\ resource.resourceType \notin DOMAIN ID_RANGES
    /\ idx' = idx + 1
    /\ UNCHANGED <<bundle, base_patient_id, uuid_map, all_used_ids, pc, run, error,
                   snapshot, assigned, last_alloc>>
    /\ UNCHANGED countVars /\ UNCHANGED xmlVars /\ UNCHANGED validatorVars
    /\ UNCHANGED splitVars /\ UNCHANGED addonVars

\* a Patient takes the caller-supplied id
BuildPatient ==
    /\ Building
    /\ LET resource == bundle[idx]
           numeric_part == base_patient_id
       IN  /\ resource.id # NoString
           /\ ~isdigit(resource.id)
           /\ resource.resourceType = "Patient"
           /\ all_used_ids' = all_used_ids \cup {numeric_part}
           /\ uuid_map' = MapEntry(uuid_map, resource, numeric_part)
           /\ assigned' = [assigned EXCEPT
                             ![idx] = AlphanumericId(resource.resourceType, numeric_part)]
    /\ idx' = idx + 1
    /\ UNCHANGED <<bundle, base_patient_id, pc, run, error, snapshot, last_alloc>>
    /\ UNCHANGED countVars /\ UNCHANGED xmlVars /\ UNCHANGED validatorVars
    /\ UNCHANGED splitVars /\ UNCHANGED addonVars

\* any other type with a range: random start offset, then probing
BuildAllocate ==
    /\ Building
    /\ LET resource == bundle[idx]
       IN  /\ resource.id # NoString
           /\ ~isdigit(resource.id)
           /\ resource.resourceType \in (DOMAIN ID_RANGES) \ {"Patient"}
           /\ LET start_range == ID_RANGES[resource.resourceType][1]
                  end_range == ID_RANGES[resource.resourceType][2]
              IN  \E random_offset \in 0..(end_range - start_range) :
                    LET numeric_part ==
                            Probe(start_range, end_range, random_offset, all_used_ids)
                    IN  /\ last_alloc' = [type |-> resource.resourceType,
                                          entry |-> idx,
                                          offset |-> random_offset,
                                          used |-> all_used_ids,
                                          result |-> numeric_part,
                                          map |-> uuid_map]
                        /\ IF numeric_part = None
                           THEN \* raise ValueError(f"ID range exhausted for ...")
                                /\ pc' = "failed"
                                /\ error' = resource.resourceType
                                /\ UNCHANGED <<uuid_map, all_used_ids, idx, assigned>>
                           ELSE /\ all_used_ids' = all_used_ids \cup {numeric_part}
                                /\ uuid_map' = MapEntry(uuid_map, resource, numeric_part)
                                /\ assigned' = [assigned EXCEPT ![idx] =
                                     AlphanumericId(resource.resourceType, numeric_part)]
                                /\ idx' = idx + 1
                                /\ UNCHANGED <<pc, error>>
    /\ UNCHANGED <<bundle, base_patient_id, run, snapshot>>
    /\ UNCHANGED countVars /\ UNCHANGED xmlVars /\ UNCHANGED validatorVars
    /\ UNCHANGED splitVars /\ UNCHANGED addonVars

\* return uuid_map
BuildReturn ==
    /\ pc = "build_uuid_mapping"
    /\ idx > Len(bundle)
    /\ pc' = "convert_all_ids"
    /\ UNCHANGED <<bundle, base_patient_id, uuid_map, all_used_ids, idx, run, error,
                   snapshot, assigned, last_alloc>>
    /\ UNCHANGED countVars /\ UNCHANGED xmlVars /\ UNCHANGED validatorVars
    /\ UNCHANGED splitVars /\ UNCHANGED addonVars

NextBuild == BuildSkip \/ BuildWarnNoRange \/ BuildPatient \/ BuildAllocate \/ BuildReturn

\* --------------------------------------------------------- convert_all_ids
\* One iteration of the loop: an entry whose id is a key of uuid_map takes the
\* mapped id, POST becomes PUT with the id in the url, fullUrl is deleted.
ConvertEntry(entry, m) ==
    IF entry.id # NoString /\ entry.id \in DOMAIN m
    THEN LET numeric_id == m[entry.id][1]
         IN  [entry EXCEPT
                !.id = numeric_id,
                !.request = IF @.method = "POST"
                            THEN [method |-> "PUT",
                                  url |-> [type |-> entry.resourceType,
                                           id |-> numeric_id]]
                            ELSE @,
                !.fullUrl = NoString]
    ELSE entry

ConvertAllIds ==
    /\ pc = "convert_all_ids"
    /\ bundle' = [i \in DOMAIN bundle |-> ConvertEntry(bundle[i], uuid_map)]
    /\ pc' = "update_all_references"
    /\ idx' = 1
    /\ UNCHANGED <<base_patient_id, uuid_map, all_used_ids, run, error,
                   snapshot, assigned, last_alloc>>
    /\ UNCHANGED countVars /\ UNCHANGED xmlVars /\ UNCHANGED validatorVars
    /\ UNCHANGED splitVars /\ UNCHANGED addonVars

\* --------------------------------------------------- update_all_references
\* A reference string is kept by its lexical parts:
\*   form "urn"   'urn:uuid:' key
\*   form "typed" type '/' key
\*   form "cond"  type '?identifier=' system '|' key
UrnRef(key) == [form |-> "urn", type |-> "", key |-> key]

TypedRef(type, key) == [form |-> "typed", type |-> type, key |-> key]

CondRef(type, key) == [form |-> "cond", type |-> type, key |-> key]

\* The characters of [A-Za-z] and of [\w-] among the characters used here.
Letters == {"a", "b", "c", "d", "e", "f", "t", "x"}

WordChars == Letters \cup DigitSet \cup {"_", "-"}

\* what the greedy group ([\w-]+) captures at the start of s; <<>>: no match
RECURSIVE WordPrefix(_)
WordPrefix(s) ==
    IF s = <<>> \/ Head(s) \notin WordChars THEN <<>>
    ELSE <<Head(s)>> \o WordPrefix(Tail(s))

\* The value update_reference looks up in uuid_map: group(2) of
\* identifier=([^|]+)\|(.+) for a conditional reference (everything after the
\* first '|'), the group ([\w-]+) of re.match for the two other forms.
LookupKey(ref) == IF ref.form = "cond" THEN ref.key ELSE WordPrefix(ref.key)

\* the regular expression matched and the captured value is a key of uuid_map
Resolves(ref, m) == LookupKey(ref) # NoString /\ LookupKey(ref) \in DOMAIN m

\* A conditional reference rewritten with the type recorded in the mapping.
UpdateReferenceMappedType(ref, m) ==
    IF ~Resolves(ref, m) THEN ref
    ELSE IF ref.form = "typed" THEN TypedRef(ref.type, m[LookupKey(ref)][1])
    ELSE TypedRef(m[LookupKey(ref)][2], m[LookupKey(ref)][1])

\* An unresolved 'urn:uuid:' reference rewritten to the captured value.
UpdateReferenceStripsUrn(ref, m) ==
    IF ~Resolves(ref, m)
    THEN IF ref.form = "urn" THEN TypedRef("", LookupKey(ref)) ELSE ref
    ELSE IF ref.form = "urn" THEN TypedRef(m[LookupKey(ref)][2], m[LookupKey(ref)][1])
    ELSE TypedRef(ref.type, m[LookupKey(ref)][1])

\* the value update_reference leaves in obj['reference']
UpdateReference(ref, m) ==
    IF ~Resolves(ref, m) THEN ref
    ELSE LET numeric_id == m[LookupKey(ref)][1]
             resource_type_from_map == m[LookupKey(ref)][2]
         IN  IF ref.form = "cond" THEN TypedRef(ref.type, numeric_id)
             ELSE IF ref.form = "urn" THEN TypedRef(resource_type_from_map, numeric_id)
             ELSE TypedRef(ref.type, numeric_id)

\* where the walk finds a dict with a 'reference' key: <<entry, position>>
RefPositions(b) == UNION {{<<i, j>> : j \in DOMAIN b[i].reference} : i \in DOMAIN b}

\* ... in the order the walk reaches them, from entry i on
RECURSIVE WalkFrom(_, _)
WalkFrom(b, i) ==
    IF i > Len(b) THEN <<>>
    ELSE [j \in DOMAIN b[i].reference |-> <<i, j>>] \o WalkFrom(b, i + 1)

RefOrder(b) == WalkFrom(b, 1)

RefAt(b, p) == b[p[1]].reference[p[2]].reference

\* update_reference reaches the next dict with a 'reference' key
UpdateReferenceStep ==
    /\ pc = "update_all_references"
    /\ idx <= Len(RefOrder(bundle))
    /\ LET p == RefOrder(bundle)[idx]
           ref == RefAt(bundle, p)
       IN  /\ bundle' = [bundle EXCEPT ![p[1]].reference[p[2]].reference =
                                           UpdateReference(ref, uuid_map)]
           /\ reference_count' =
                IF Resolves(ref, uuid_map) THEN reference_count + 1 ELSE reference_count
           /\ conditional_ref_count' =
                IF Resolves(ref, uuid_map) /\ ref.form = "cond"
                THEN conditional_ref_count + 1 ELSE conditional_ref_count
    /\ idx' = idx + 1
    /\ UNCHANGED <<base_patient_id, uuid_map, all_used_ids, pc, run, error,
                   snapshot, assigned, last_alloc>>
    /\ UNCHANGED xmlVars /\ UNCHANGED validatorVars
    /\ UNCHANGED splitVars /\ UNCHANGED addonVars

\* the walk is over: the two counts are printed
UpdateAllReferencesReturn ==
    /\ pc = "update_all_references"
    /\ idx > Len(RefOrder(bundle))
    /\ pc' = "done"
    /\ UNCHANGED <<bundle, base_patient_id, uuid_map, all_used_ids, idx, run, error,
                   snapshot, assigned, last_alloc>>
    /\ UNCHANGED countVars /\ UNCHANGED xmlVars /\ UNCHANGED validatorVars
    /\ UNCHANGED splitVars /\ UNCHANGED addonVars

UpdateAllReferences == UpdateReferenceStep \/ UpdateAllReferencesReturn

\* The three steps are applied again to the bundle they produced.
NoneAssigned(b) == [i \in DOMAIN b |-> NoString]

NoAlloc == [type |-> "", entry |-> 0, offset |-> 0, used |-> {}, result |-> None, map |-> EmptyMap]

StartSecondRun ==
    /\ pc = "done"
    /\ run = 1
    /\ run' = 2
    /\ pc' = "build_uuid_mapping"
    /\ idx' = 1
    /\ uuid_map' = EmptyMap
    /\ all_used_ids' = {}
    /\ snapshot' = bundle
    /\ assigned' = NoneAssigned(bundle)
    /\ reference_count' = 0
    /\ conditional_ref_count' = 0
    /\ UNCHANGED <<bundle, base_patient_id, error, last_alloc>>
    /\ UNCHANGED xmlVars /\ UNCHANGED validatorVars
    /\ UNCHANGED splitVars /\ UNCHANGED addonVars

\* ------------------------------------------------------------------ inputs
U1 == <<"a", "-", "1">>

U2 == <<"b", "-", "2">>

D1 == <<"7", "7">>

OrigIds == {U1, U2, D1}

\* below every range, the Patient range, inside the Encounter range
PatientIds == {9, 10, 21}

Entry(t, i) ==
    [resourceType |-> t,
     id |-> i,
     identifier |-> <<>>,
     reference |-> <<>>,
     request |-> [method |-> "POST", url |-> [type |-> t, id |-> NoString]],
     fullUrl |-> i]

Identifier(v) == [system |-> "urn:sys", value |-> v]

BaseEntries(types) == {Entry(t, i) : t \in types, i \in OrigIds}

IdentifierValues == {U1, D1}

References ==
    {UrnRef(U1), TypedRef("Encounter", U1), TypedRef("Condition", U1),
     CondRef("Encounter", D1), CondRef("Encounter", U2)}

\* b with identifier value c[2] on entry c[1] (entry 0: on none)
WithIdentifier(b, c) ==
    IF c[1] = 0 THEN b ELSE [b EXCEPT ![c[1]].identifier = <<Identifier(c[2])>>]

\* b with reference c[2] inside entry c[1] (entry 0: in none)
WithReference(b, c) ==
    IF c[1] = 0 THEN b ELSE [b EXCEPT ![c[1]].reference = <<[reference |-> c[2]]>>]

Choices(k, values) == {<<0, NoString>>} \cup ((1..k) \X values)

XmlIdle == xml_in = NoString /\ xml_content = NoString /\ xml_keys = <<>>

NoFile == [state |-> "", content |-> <<>>]

ValidatorIdle == bundle_file = NoFile /\ results = <<>> /\ exit_status = None

SplitIdle == resources_by_type = EmptyMap /\ patient_id = NoString /\ files = EmptyMap

AddonIdle == args = <<>> /\ stages = <<>> /\ modules_folder = {}

InitRun(b) ==
    /\ bundle = b
    /\ base_patient_id \in PatientIds
    /\ uuid_map = EmptyMap
    /\ all_used_ids = {}
    /\ idx = 1
    /\ pc = "build_uuid_mapping"
    /\ run = 1
    /\ error = ""
    /\ reference_count = 0
    /\ conditional_ref_count = 0
    /\ snapshot = b
    /\ assigned = NoneAssigned(b)
    /\ last_alloc = NoAlloc
    /\ XmlIdle
    /\ ValidatorIdle
    /\ SplitIdle /\ AddonIdle

\* bundles of up to MaxEntries entries; at most one entry carries an identifier
\* and at most one holds a reference
Init ==
    \E k \in 1..MaxEntries :
        \E b \in [1..k -> BaseEntries({"Patient", "Encounter", "Device"})],
           ic \in Choices(k, IdentifierValues),
           rc \in Choices(k, References) :
            InitRun(WithReference(WithIdentifier(b, ic), rc))

Next ==
    \/ NextBuild
    \/ ConvertAllIds
    \/ UpdateReferenceStep
    \/ UpdateAllReferencesReturn
    \/ StartSecondRun

Spec == Init /\ [][Next]_vars

\* bundles of up to MaxAllocEntries entries without identifiers and references
InitAlloc ==
    \E k \in 1..MaxAllocEntries :
        \E b \in [1..k -> BaseEntries({"Patient", "Encounter", "Condition", "Device"})] :
            InitRun(b)

SpecAlloc == InitAlloc /\ [][NextBuild]_vars

\* ---------------------------------------------- inputs of the rewriting steps
\* an id and a natural-key value holding a character outside [\w-]
P1 == <<"a", ".", "1">>

N1 == <<"7", ".", "7">>

\* an entry that asks for an update of 'Type/id'
PutEntry(t, i) ==
    [Entry(t, i) EXCEPT !.request = [method |-> "PUT", url |-> [type |-> t, id |-> i]]]

RewriteEntries ==
    {Entry("Patient", U1), Entry("Encounter", P1), Entry("Encounter", D1),
     Entry("Device", U2),
     [PutEntry("Encounter", U2) EXCEPT !.identifier = <<Identifier(N1)>>]}

RewriteRefs ==
    {UrnRef(U1), UrnRef(P1), TypedRef("Condition", U1), TypedRef("Encounter", P1),
     CondRef("Condition", N1)}

\* the reference dicts of one entry: none, or one with a display text
RewriteRefLists ==
    {<<>>} \cup {<<[reference |-> r, display |-> "d"]>> : r \in RewriteRefs}

\* b with the reference dicts r[i] inside entry i
WithRefLists(b, r) == [i \in DOMAIN b |-> [b[i] EXCEPT !.reference = r[i]]]

\* bundles of up to MaxRewriteEntries entries, each with at most one reference
InitRewrite ==
    \E k \in 1..MaxRewriteEntries :
        \E b \in [1..k -> RewriteEntries], r \in [1..k -> RewriteRefLists] :
            InitRun(WithRefLists(b, r)) /\ base_patient_id = 10

NextRewrite ==
    \/ NextBuild
    \/ ConvertAllIds
    \/ UpdateReferenceStep
    \/ UpdateAllReferencesReturn

SpecRewrite == InitRewrite /\ [][NextRewrite]_vars

\* ------------------------------------------- process_ccda_xml: UUID replacement
\* str.count(sub): occurrences found left to right without overlap
RECURSIVE count(_, _)
count(s, sub) ==
    IF Len(s) < Len(sub) THEN 0
    ELSE IF startswith(s, sub)
         THEN 1 + count(SubSeq(s, Len(sub) + 1, Len(s)), sub)
         ELSE count(Tail(s), sub)

\* str.replace(old, new): every such occurrence replaced
RECURSIVE replace(_, _, _)
replace(s, old, new) ==
    IF Len(s) < Len(old) THEN s
    ELSE IF startswith(s, old)
         THEN new \o replace(SubSeq(s, Len(old) + 1, Len(s)), old, new)
         ELSE <<Head(s)>> \o replace(Tail(s), old, new)

\* The body of `for uuid, (alphanumeric_id, resource_type) in uuid_map.items()`
ReplaceUuid(xml, uuid, m) ==
    IF startswith(uuid, <<"t">>) THEN xml
    ELSE IF count(xml, uuid) > 0 THEN replace(xml, uuid, m[uuid][1])
    ELSE xml

ProcessCcdaXmlStep ==
    /\ pc = "process_ccda_xml"
    /\ xml_keys # <<>>
    /\ xml_content' = ReplaceUuid(xml_content, Head(xml_keys), uuid_map)
    /\ xml_keys' = Tail(xml_keys)
    /\ UNCHANGED <<bundle, base_patient_id, uuid_map, all_used_ids, idx, pc, run, error,
                   snapshot, assigned, last_alloc, xml_in>>
    /\ UNCHANGED countVars /\ UNCHANGED validatorVars
    /\ UNCHANGED splitVars /\ UNCHANGED addonVars

\* the loop is over: the XML is written out
ProcessCcdaXmlSave ==
    /\ pc = "process_ccda_xml"
    /\ xml_keys = <<>>
    /\ pc' = "xml_saved"
    /\ UNCHANGED <<bundle, base_patient_id, uuid_map, all_used_ids, idx, run, error,
                   snapshot, assigned, last_alloc>>
    /\ UNCHANGED countVars /\ UNCHANGED xmlVars /\ UNCHANGED validatorVars
    /\ UNCHANGED splitVars /\ UNCHANGED addonVars

\* The original-identity token shape ([0-9a-f]{8}-[0-9a-f]{4}-...), scaled to
\* one hexadecimal character on each side of one hyphen.
HexChars == DigitSet \cup {"a", "b", "c", "d", "e", "f"}

UuidShape(s) == Len(s) = 3 /\ s[1] \in HexChars /\ s[2] = "-" /\ s[3] \in HexChars

\* Inputs of the XML substitution: a mapping as build_uuid_mapping leaves it
\* (keys are original ids and natural-key values, values are issued
\* identifiers), an order of its keys, and a serialized document.
NK == <<"1">>

TK == <<"t", "a">>

XmlKeys == {U1, NK, TK}

XmlTargets == {<<AlphanumericId("Patient", 10), "Patient">>,
               <<AlphanumericId("Encounter", 21), "Encounter">>}

XmlMaps(keys) == UNION {[K -> XmlTargets] : K \in (SUBSET keys) \ {{}}}

XmlAlphabet == {"a", "-", "1", "t"}

XmlStrings(len) == UNION {[1..n -> XmlAlphabet] : n \in 0..len}

\* every order in which the keys of m can be iterated
KeyOrders(m) ==
    {o \in [1..Cardinality(DOMAIN m) -> DOMAIN m] :
        \A i, j \in DOMAIN o : i # j => o[i] # o[j]}

InitXml ==
    /\ bundle = <<>>
    /\ base_patient_id = 10
    /\ uuid_map \in XmlMaps(XmlKeys)
    /\ all_used_ids = {}
    /\ idx = 1
    /\ pc = "process_ccda_xml"
    /\ run = 1
    /\ error = ""
    /\ reference_count = 0
    /\ conditional_ref_count = 0
    /\ snapshot = <<>>
    /\ assigned = <<>>
    /\ last_alloc = NoAlloc
    /\ xml_in \in XmlStrings(MaxXmlLen)
    /\ xml_content = xml_in
    /\ xml_keys \in KeyOrders(uuid_map)
    /\ ValidatorIdle
    /\ SplitIdle /\ AddonIdle

NextXml == ProcessCcdaXmlStep \/ ProcessCcdaXmlSave

SpecXml == InitXml /\ [][NextXml]_vars


\* ====================================================== validate_patient.py
\* c repeated n times
RECURSIVE Rep(_, _)
Rep(c, n) == IF n = 0 THEN <<>> ELSE <<c>> \o Rep(c, n - 1)

\* a token of the shape 8-4-4-4-12 written with the character c
Uuid(c) ==
    Rep(c, 8) \o <<"-">> \o Rep(c, 4) \o <<"-">> \o Rep(c, 4) \o <<"-">>
        \o Rep(c, 4) \o <<"-">> \o Rep(c, 12)

\* JSON values of resource['id']: a string, a number, or no such key
JString(s) == [json |-> "string", text |-> s]

JNumber == [json |-> "number", text |-> <<"7">>]

JAbsent == [json |-> "absent", text |-> <<>>]

\* `if not res_id` is false
Truthy(v) == v.json = "number" \/ (v.json = "string" /\ v.text # <<>>)

\* ------------------------------------------------------- ValidationResult
ValidationResult(check_name) ==
    [check_name |-> check_name, passed |-> TRUE, issues |-> <<>>, warnings |-> <<>>]

add_issue(result, message) ==
    [result EXCEPT !.issues = Append(@, message), !.passed = FALSE]

add_warning(result, message) == [result EXCEPT !.warnings = Append(@, message)]

\* --------------------------------------------------- the checks, in order
validations ==
    <<"validate_bundle_structure", "validate_resource_inventory",
      "validate_resource_ids", "validate_uuid_identifiers",
      "validate_identifier_order", "validate_medication_resources",
      "validate_bundle_dependency_order", "validate_medication_request",
      "validate_encounter_service_provider", "validate_allergy_intolerance",
      "validate_condition", "validate_immunization", "validate_observation",
      "validate_diagnostic_report", "validate_procedure",
      "validate_medication_administration", "validate_athena_metadata",
      "validate_patient_tagging_requirements", "validate_reference_integrity",
      "validate_dangling_encounter_references", "validate_empty_encounters",
      "validate_patient_general_practitioner",
      "validate_composition_for_encounters", "validate_chat_ui_data_structure">>

\* the checks whose body is modelled; the others are kept by their result
ModelledChecks ==
    {"validate_bundle_structure", "validate_resource_inventory", "validate_resource_ids"}

validate_bundle_structure(b) ==
    LET r0 == ValidationResult("validate_bundle_structure")
        r1 == IF b.resourceType # "Bundle" THEN add_issue(r0, "Invalid resourceType") ELSE r0
    IN  IF Len(b.entry) = 0 THEN add_warning(r1, "Bundle is empty") ELSE r1

\* EXPECTED_RESOURCES: only Patient is required, with min_count = max_count = 1
validate_resource_inventory(b) ==
    LET patients == Cardinality({i \in DOMAIN b.entry : b.entry[i].resourceType = "Patient"})
        r0 == ValidationResult("validate_resource_inventory")
        r1 == IF patients = 0 THEN add_issue(r0, "Required resource type is missing") ELSE r0
        r2 == IF patients < 1 THEN add_warning(r1, "minimum expected") ELSE r1
    IN  IF patients > 1 THEN add_warning(r2, "maximum expected") ELSE r2

\* the UUID format test of validate_resource_ids
UuidFormat(res_id) ==
    Len(res_id) = 36 /\ Cardinality({i \in DOMAIN res_id : res_id[i] = "-"}) = 4

\* len(res_id) of an id that is not a string raises TypeError
ResourceIdsRaises(b) ==
    \E i \in DOMAIN b.entry : Truthy(b.entry[i].id) /\ b.entry[i].id.json # "string"

\* The loop of validate_resource_ids over the entries from position i on.
RECURSIVE ResourceIdsLoop(_, _, _)
ResourceIdsLoop(entries, i, acc) ==
    IF i > Len(entries) THEN acc
    ELSE LET res_type == entries[i].resourceType
             res_id == entries[i].id
         IN  IF ~Truthy(res_id)
             THEN ResourceIdsLoop(entries, i + 1,
                    [acc EXCEPT !.result = add_warning(@, "resource missing ID")])
             ELSE ResourceIdsLoop(entries, i + 1,
                    [acc EXCEPT
                       !.duplicate_ids = IF res_id.text \in acc.seen_ids
                                         THEN Append(@, <<res_type, res_id.text>>) ELSE @,
                       !.seen_ids = @ \cup {res_id.text},
                       !.uuid_resources = IF UuidFormat(res_id.text) /\ res_type # "Medication"
                                          THEN Append(@, <<res_type, res_id.text>>) ELSE @])

ResourceIdsScan(b) ==
    ResourceIdsLoop(b.entry, 1,
        [result |-> ValidationResult("validate_resource_ids"),
         seen_ids |-> {}, duplicate_ids |-> <<>>, uuid_resources |-> <<>>])

\* The last test without `not duplicate_ids`.
validate_resource_ids_lenient(b) ==
    LET acc == ResourceIdsScan(b)
        r1 == IF acc.duplicate_ids # <<>>
              THEN add_issue(acc.result, "duplicate resource IDs") ELSE acc.result
        r2 == IF acc.uuid_resources # <<>>
              THEN add_warning(r1, "non-Medication resources with UUID IDs") ELSE r1
    IN  IF Len(acc.uuid_resources) <= 5 THEN [r2 EXCEPT !.passed = TRUE] ELSE r2

validate_resource_ids(b) ==
    LET acc == ResourceIdsScan(b)
        r1 == IF acc.duplicate_ids # <<>>
              THEN add_issue(acc.result, "duplicate resource IDs") ELSE acc.result
        r2 == IF acc.uuid_resources # <<>>
              THEN add_warning(r1, "non-Medication resources with UUID IDs") ELSE r1
    IN  IF acc.duplicate_ids = <<>> /\ Len(acc.uuid_resources) <= 5
        THEN [r2 EXCEPT !.passed = TRUE]
        ELSE IF acc.duplicate_ids = <<>> THEN [r2 EXCEPT !.passed = TRUE]
        ELSE r2

\* result = validation_func() for a modelled check
CheckResult(name, b) ==
    IF name = "validate_bundle_structure" THEN validate_bundle_structure(b)
    ELSE IF name = "validate_resource_inventory" THEN validate_resource_inventory(b)
    ELSE validate_resource_ids(b)

\* the status main returns after the checks, from a status that also counts
\* results with warnings
ExitCodeCountsWarnings(rs) ==
    IF \A n \in DOMAIN rs : rs[n].passed /\ rs[n].warnings = <<>> THEN 0 ELSE 1

\* failed_count = sum(1 for r in validator.results if not r.passed);
\* return 0 if failed_count == 0 else 1
ExitCode(rs) ==
    LET failed_count == Cardinality({n \in DOMAIN rs : ~rs[n].passed})
    IN  IF failed_count = 0 THEN 0 ELSE 1

\* ------------------------------------------------------------ load_bundle
\* json.load succeeded and the loop over the entries raised nothing
LoadBundle ==
    /\ pc = "load_bundle"
    /\ bundle_file.state = "ok"
    /\ bundle' = bundle_file.content
    /\ pc' = "run_all_validations"
    /\ idx' = 1
    /\ UNCHANGED <<base_patient_id, uuid_map, all_used_ids, run, error,
                   snapshot, assigned, last_alloc, bundle_file, results, exit_status>>
    /\ UNCHANGED countVars /\ UNCHANGED xmlVars
    /\ UNCHANGED splitVars /\ UNCHANGED addonVars

\* FileNotFoundError, JSONDecodeError or another exception: load_bundle returns
\* False, run_all_validations returns False, main returns 2
LoadBundleFails ==
    /\ pc = "load_bundle"
    /\ bundle_file.state # "ok"
    /\ pc' = "exited"
    /\ exit_status' = 2
    /\ UNCHANGED <<bundle, base_patient_id, uuid_map, all_used_ids, idx, run, error,
                   snapshot, assigned, last_alloc, bundle_file, results>>
    /\ UNCHANGED countVars /\ UNCHANGED xmlVars
    /\ UNCHANGED splitVars /\ UNCHANGED addonVars

\* ---------------------------------------------------- run_all_validations
Validating == pc = "run_all_validations" /\ idx <= Len(validations)

\* one iteration of `for validation_func in validations` on a modelled check
RunValidation ==
    /\ Validating
    /\ validations[idx] \in ModelledChecks
    /\ ~(validations[idx] = "validate_resource_ids" /\ ResourceIdsRaises(bundle))
    /\ results' = Append(results, CheckResult(validations[idx], bundle))
    /\ idx' = idx + 1
    /\ UNCHANGED <<bundle, base_patient_id, uuid_map, all_used_ids, pc, run, error,
                   snapshot, assigned, last_alloc, bundle_file, exit_status>>
    /\ UNCHANGED countVars /\ UNCHANGED xmlVars
    /\ UNCHANGED splitVars /\ UNCHANGED addonVars

\* ... on one of the other checks: it returns a result, passed or not (at most
\* one of these checks is taken to fail in a run)
RunOtherValidation ==
    /\ Validating
    /\ validations[idx] \notin ModelledChecks
    /\ \E passed \in BOOLEAN :
         /\ ~passed => \A n \in DOMAIN results :
                          results[n].check_name \in ModelledChecks \/ results[n].passed
         /\ results' = Append(results,
                         IF passed THEN ValidationResult(validations[idx])
                         ELSE add_issue(ValidationResult(validations[idx]), "issue"))
    /\ idx' = idx + 1
    /\ UNCHANGED <<bundle, base_patient_id, uuid_map, all_used_ids, pc, run, error,
                   snapshot, assigned, last_alloc, bundle_file, exit_status>>
    /\ UNCHANGED countVars /\ UNCHANGED xmlVars
    /\ UNCHANGED splitVars /\ UNCHANGED addonVars

\* validate_resource_ids raises TypeError; nothing catches it, the interpreter
\* prints the traceback and ends with status 1
ValidationRaises ==
    /\ Validating
    /\ validations[idx] = "validate_resource_ids"
    /\ ResourceIdsRaises(bundle)
    /\ pc' = "exited"
    /\ exit_status' = 1
    /\ error' = "TypeError"
    /\ UNCHANGED <<bundle, base_patient_id, uuid_map, all_used_ids, idx, run,
                   snapshot, assigned, last_alloc, bundle_file, results>>
    /\ UNCHANGED countVars /\ UNCHANGED xmlVars
    /\ UNCHANGED splitVars /\ UNCHANGED addonVars

\* the loop is over: run_all_validations returns True, main returns the status
MainReturn ==
    /\ pc = "run_all_validations"
    /\ idx > Len(validations)
    /\ pc' = "exited"
    /\ exit_status' = ExitCode(results)
    /\ UNCHANGED <<bundle, base_patient_id, uuid_map, all_used_ids, idx, run, error,
                   snapshot, assigned, last_alloc, bundle_file, results>>
    /\ UNCHANGED countVars /\ UNCHANGED xmlVars
    /\ UNCHANGED splitVars /\ UNCHANGED addonVars

\* ------------------------------------------------------- validator inputs
ValidatedEntry(t, i) == [resourceType |-> t, id |-> i]

ValidatedEntries ==
    {ValidatedEntry(t, i) :
        t \in {"Patient", "Encounter", "Medication"},
        i \in {JString(Uuid("a")), JString(AlphanumericId("Encounter", 20)),
               JNumber, JAbsent}}

\* files that cannot be loaded: no such file, not JSON, JSON that is no object
UnloadableFiles ==
    {[state |-> st, content |-> <<>>] : st \in {"missing", "invalid_json", "not_an_object"}}

InitValidator(f) ==
    /\ bundle_file = f
    /\ results = <<>>
    /\ exit_status = None
    /\ pc = "load_bundle"
    /\ bundle = <<>>
    /\ base_patient_id = 10
    /\ uuid_map = EmptyMap
    /\ all_used_ids = {}
    /\ idx = 1
    /\ run = 1
    /\ error = ""
    /\ reference_count = 0
    /\ conditional_ref_count = 0
    /\ snapshot = <<>>
    /\ assigned = <<>>
    /\ last_alloc = NoAlloc
    /\ XmlIdle
    /\ SplitIdle /\ AddonIdle

InitValidate ==
    \/ \E f \in UnloadableFiles : InitValidator(f)
    \/ \E k \in 0..MaxValidatedEntries :
         \E e \in [1..k -> ValidatedEntries], t \in {"Bundle", "Parameters"} :
            InitValidator([state |-> "ok", content |-> [resourceType |-> t, entry |-> e]])

NextValidate ==
    \/ LoadBundle
    \/ LoadBundleFails
    \/ RunValidation
    \/ RunOtherValidation
    \/ ValidationRaises
    \/ MainReturn

SpecValidate == InitValidate /\ [][NextValidate]_vars


\* ========================================================= add_identifiers
\* A system URI is kept as the sequence of its segments; str.lower maps every
\* segment, and `word in system` is the occurrence of the segments of word.
LowerSegment(x) ==
    CASE x = "Synthea" -> "synthea"
      [] x = "A" -> "a"
      [] x = "SSESSMENT" -> "ssessment"
      [] OTHER -> x

lower(system) == [i \in DOMAIN system |-> LowerSegment(system[i])]

\* sub in s
In(sub, s) == count(s, sub) > 0

AthenaSystem == <<"https://www.", "thetarho.com", "/fhir/identifiers/", "athena">>

PatientSystem == <<"https://www.", "thetarho.com", "/fhir/identifiers/", "patient">>

\* uuid_pattern.match(value): ^[0-9a-f]{8}-[0-9a-f]{4}-[0-9a-f]{4}-[0-9a-f]{4}-
\* [0-9a-f]{12}$ with re.IGNORECASE
HexCharsAnyCase == HexChars \cup {"A", "B", "C", "D", "E", "F"}

uuid_pattern_match(value) ==
    /\ Len(value) = 36
    /\ \A i \in 1..36 :
          IF i \in {9, 14, 19, 24} THEN value[i] = "-" ELSE value[i] \in HexCharsAnyCase

\* ATHENA_ID_PREFIXES (the rows of the types used here)
ATHENA_ID_PREFIXES ==
    [Patient   |-> <<"E">>,
     Encounter |-> <<"e", "n", "c", "o", "u", "n", "t", "e", "r">>]

\* ATHENA_ID_PREFIXES.get(resource_type, 'unknown')
AthenaPrefix(resource_type) ==
    IF resource_type \in DOMAIN ATHENA_ID_PREFIXES THEN ATHENA_ID_PREFIXES[resource_type]
    ELSE <<"u", "n", "k", "n", "o", "w", "n">>

\* f"{practice_id}.{athena_prefix}-{resource_id}"
AthenaId(practice_id, resource_type, resource_id) ==
    practice_id \o <<".">> \o AthenaPrefix(resource_type) \o <<"-">> \o resource_id

\* the tests of the filter loop followed by `continue`
SkipsSynthea(id_obj) == In(<<"synthea">>, lower(id_obj.system))

SkipsSmartHealthIt(id_obj) == In(<<"smarthealthit">>, lower(id_obj.system))

SkipsThetaRho(id_obj) == In(<<"thetarho.com">>, lower(id_obj.system))

SkipsUuidValue(id_obj) == uuid_pattern_match(id_obj.value)

\* The filter loop without the test on 'thetarho.com'.
RECURSIVE NonUuidIdentifiersKeepThetaRho(_)
NonUuidIdentifiersKeepThetaRho(identifiers) ==
    IF identifiers = <<>> THEN <<>>
    ELSE LET id_obj == Head(identifiers)
             rest == NonUuidIdentifiersKeepThetaRho(Tail(identifiers))
         IN  IF SkipsSynthea(id_obj) \/ SkipsSmartHealthIt(id_obj) \/ SkipsUuidValue(id_obj)
             THEN rest
             ELSE <<id_obj>> \o rest

\* non_uuid_identifiers after the filter loop
RECURSIVE NonUuidIdentifiers(_)
NonUuidIdentifiers(identifiers) ==
    IF identifiers = <<>> THEN <<>>
    ELSE LET id_obj == Head(identifiers)
             rest == NonUuidIdentifiers(Tail(identifiers))
         IN  IF SkipsSynthea(id_obj) THEN rest
             ELSE IF SkipsSmartHealthIt(id_obj) THEN rest
             ELSE IF SkipsThetaRho(id_obj) THEN rest
             ELSE IF SkipsUuidValue(id_obj) THEN rest
             ELSE <<id_obj>> \o rest

\* resource after add_identifiers(resource, resource_type, resource_id, practice_id)
add_identifiers(resource, resource_type, resource_id, practice_id) ==
    LET non_uuid_identifiers == NonUuidIdentifiers(resource.identifier)
        athena_identifier ==
            [system |-> AthenaSystem,
             value |-> AthenaId(practice_id, resource_type, resource_id)]
        simple_patient_identifier == [system |-> PatientSystem, value |-> resource_id]
        new_identifiers ==
            <<athena_identifier>>
                \o (IF resource_type = "Patient" THEN <<simple_patient_identifier>> ELSE <<>>)
                \o non_uuid_identifiers
    IN  [resource EXCEPT !.identifier = new_identifiers]

\* validate_identifier_order (validate_patient.py): the resource is listed in
\* resources_with_wrong_order
WrongIdentifierOrder(resource) ==
    LET identifiers == resource.identifier
    IN  /\ identifiers # <<>>
        /\ \/ ~In(<<"thetarho.com", "/fhir/identifiers/", "athena">>, identifiers[1].system)
           \/ /\ resource.resourceType = "Patient"
              /\ Len(identifiers) >= 2
              /\ ~In(<<"thetarho.com", "/fhir/identifiers/", "patient">>, identifiers[2].system)

practice_id == <<"a", "-", "1">>

\* Step 5 of convert_to_athena_format: the loop over the entries that have a
\* resourceType and an id; run counts the conversions the bundle went through.
AddIdentifiers ==
    /\ pc = "add_identifiers"
    /\ run <= 2
    /\ bundle' = [i \in DOMAIN bundle |->
                    IF bundle[i].resourceType # "" /\ bundle[i].id # NoString
                    THEN add_identifiers(bundle[i], bundle[i].resourceType,
                                         bundle[i].id, practice_id)
                    ELSE bundle[i]]
    /\ run' = run + 1
    /\ UNCHANGED <<base_patient_id, uuid_map, all_used_ids, idx, pc, error,
                   snapshot, assigned, last_alloc>>
    /\ UNCHANGED countVars /\ UNCHANGED xmlVars /\ UNCHANGED validatorVars
    /\ UNCHANGED splitVars /\ UNCHANGED addonVars

\* ---------------------------------------------- inputs of add_identifiers
SyntheaSystem == <<"https://github.com/synthetichealth/", "synthea">>

SyntheaSystemUpper == <<"https://", "Synthea", ".example">>

SmartSystem == <<"http://hospital.", "smarthealthit", ".org">>

SsnSystem == <<"http://hl7.org/fhir/sid/us-ssn">>

DlSystem == <<"urn:oid:2.16.840.1.113883.4.3.25">>

InputIdentifiers ==
    {[system |-> SyntheaSystem, value |-> Uuid("a")],
     [system |-> SyntheaSystemUpper, value |-> <<"9", "9">>],
     [system |-> SmartSystem, value |-> <<"9", "9">>],
     [system |-> AthenaSystem, value |-> <<"9", "9">>],
     [system |-> SsnSystem, value |-> <<"9", "9">>],
     [system |-> SsnSystem, value |-> Uuid("A")],
     [system |-> DlSystem, value |-> <<"9", "8">>]}

\* one resource after convert_all_ids, with up to MaxIdentifiers identifiers
InitIdentifiers ==
    \E t \in {"Patient", "Encounter", "Device"}, k \in 0..MaxIdentifiers :
        \E ids \in [1..k -> InputIdentifiers] :
            /\ bundle = <<[Entry(t, IF t \in DOMAIN ID_RANGES
                                     THEN AlphanumericId(t, ID_RANGES[t][1]) ELSE U1)
                              EXCEPT !.identifier = ids]>>
            /\ snapshot = bundle
            /\ pc = "add_identifiers"
            /\ run = 1
            /\ base_patient_id = 10
            /\ uuid_map = EmptyMap
            /\ all_used_ids = {}
            /\ idx = 1
            /\ error = ""
            /\ reference_count = 0
            /\ conditional_ref_count = 0
            /\ assigned = <<>>
            /\ last_alloc = NoAlloc
            /\ XmlIdle
            /\ ValidatorIdle
            /\ SplitIdle /\ AddonIdle

SpecIdentifiers == InitIdentifiers /\ [][AddIdentifiers]_vars

\* ================================= convert_to_athena_format: the last steps
\* every variable but the bundle and the stage at its value before the pipeline
InitStage(b, stage) ==
    /\ bundle = b
    /\ snapshot = b
    /\ pc = stage
    /\ run = 1
    /\ base_patient_id = 10
    /\ uuid_map = EmptyMap
    /\ all_used_ids = {}
    /\ idx = 1
    /\ error = ""
    /\ reference_count = 0
    /\ conditional_ref_count = 0
    /\ assigned = <<>>
    /\ last_alloc = NoAlloc
    /\ XmlIdle
    /\ ValidatorIdle
    /\ SplitIdle /\ AddonIdle

shared_resource_types == {"Organization", "Practitioner", "Location", "PractitionerRole"}

RESOURCE_ORDER ==
    [t \in {"Patient", "Medication", "MedicationRequest", "Encounter", "Condition",
            "Observation", "DiagnosticReport", "Procedure", "AllergyIntolerance",
            "Immunization", "DocumentReference", "MedicationAdministration", "Claim",
            "ExplanationOfBenefit", "Provenance"} |->
        CASE t = "Patient" -> 0
          [] t = "Medication" -> 1
          [] t = "MedicationRequest" -> 2
          [] t = "Encounter" -> 3
          [] t = "Condition" -> 4
          [] t = "Observation" -> 5
          [] t = "DiagnosticReport" -> 6
          [] t = "Procedure" -> 7
          [] t = "AllergyIntolerance" -> 8
          [] t = "Immunization" -> 9
          [] t = "DocumentReference" -> 10
          [] t = "MedicationAdministration" -> 11
          [] t = "Claim" -> 12
          [] t = "ExplanationOfBenefit" -> 13
          [] t = "Provenance" -> 14]

\* a key that ranks every entry alike
get_sort_key_unranked(entry) == 999

\* RESOURCE_ORDER.get(resource_type, 999)
get_sort_key(entry) ==
    IF entry.resourceType \in DOMAIN RESOURCE_ORDER
    THEN RESOURCE_ORDER[entry.resourceType] ELSE 999

\* x placed behind every element of the sorted list t whose key is not greater
RECURSIVE InsertByKey(_, _)
InsertByKey(t, x) ==
    IF t = <<>> THEN <<x>>
    ELSE IF get_sort_key(t[Len(t)]) <= get_sort_key(x) THEN Append(t, x)
    ELSE Append(InsertByKey(SubSeq(t, 1, Len(t) - 1), x), t[Len(t)])

\* sorted(entries, key=get_sort_key): a stable sort
RECURSIVE sorted(_)
sorted(entries) ==
    IF entries = <<>> THEN <<>>
    ELSE InsertByKey(sorted(SubSeq(entries, 1, Len(entries) - 1)), entries[Len(entries)])

NotShared(entry) == entry.resourceType \notin shared_resource_types

\* Step 17: the shared resources leave the patient bundle
RemoveSharedResources ==
    /\ pc = "remove_shared_resources"
    /\ bundle' = SelectSeq(bundle, NotShared)
    /\ pc' = "sort_entries"
    /\ UNCHANGED <<base_patient_id, uuid_map, all_used_ids, idx, run, error,
                   snapshot, assigned, last_alloc>>
    /\ UNCHANGED countVars /\ UNCHANGED xmlVars /\ UNCHANGED validatorVars
    /\ UNCHANGED splitVars /\ UNCHANGED addonVars

\* Step 18: bundle['entry'] = sorted(bundle['entry'], key=get_sort_key)
SortEntries ==
    /\ pc = "sort_entries"
    /\ bundle' = sorted(bundle)
    /\ pc' = "save_bundle"
    /\ UNCHANGED <<base_patient_id, uuid_map, all_used_ids, idx, run, error,
                   snapshot, assigned, last_alloc>>
    /\ UNCHANGED countVars /\ UNCHANGED xmlVars /\ UNCHANGED validatorVars
    /\ UNCHANGED splitVars /\ UNCHANGED addonVars

\* the resource of an entry as json.dump writes it and json.load reads it
JsonEntry(entry) == [entry EXCEPT !.id = IF @ = NoString THEN JAbsent ELSE JString(@)]

JsonBundle(b) ==
    [state |-> "ok",
     content |-> [resourceType |-> "Bundle", entry |-> [i \in DOMAIN b |-> JsonEntry(b[i])]]]

\* json.dump(bundle, f) to bundles/<patient id>_bundle.json
SaveBundle ==
    /\ pc = "save_bundle"
    /\ bundle_file' = JsonBundle(bundle)
    /\ pc' = "saved"
    /\ UNCHANGED <<bundle, base_patient_id, uuid_map, all_used_ids, idx, run, error,
                   snapshot, assigned, last_alloc, results, exit_status>>
    /\ UNCHANGED countVars /\ UNCHANGED xmlVars
    /\ UNCHANGED splitVars /\ UNCHANGED addonVars

\* ---------------------------------------- validate_bundle_dependency_order
\* positions of the entries that have a type and an id, keyed by 'type/id':
\* a later entry with the same key overwrites the position of an earlier one
resource_positions(entries) ==
    LET keyed == {i \in DOMAIN entries : entries[i].resourceType # "" /\ Truthy(entries[i].id)}
        Key(i) == <<entries[i].resourceType, entries[i].id>>
    IN  [k \in {Key(i) : i \in keyed} |->
            CHOOSE i \in keyed : Key(i) = k /\ \A j \in keyed : Key(j) = k => j <= i]

dependencies ==
    <<<<"Medication", <<"MedicationRequest", "MedicationAdministration">>>>,
      <<"Patient", <<"Encounter", "Observation", "Condition", "AllergyIntolerance",
                     "MedicationRequest", "DiagnosticReport", "Procedure", "Immunization">>>>,
      <<"Organization", <<"Encounter", "OrganizationAffiliation">>>>,
      <<"Practitioner", <<"Encounter", "PractitionerRole">>>>,
      <<"Location", <<"Encounter">>>>>>

\* the pairs (row of dependencies, entry of a dependent type) that the check
\* reports: the entry's position is below the highest position of the row's type
order_issues(entries) ==
    LET pos == resource_positions(entries)
        Keyed(i, t) == entries[i].resourceType = t /\ Truthy(entries[i].id)
        DepPositions(t) == {pos[<<t, entries[i].id>>] : i \in {j \in DOMAIN entries : Keyed(j, t)}}
        Highest(S) == CHOOSE m \in S : \A n \in S : n <= m
    IN  {<<d, n, i>> \in (DOMAIN dependencies) \X (1..8) \X (DOMAIN entries) :
            /\ n \in DOMAIN dependencies[d][2]
            /\ DepPositions(dependencies[d][1]) # {}
            /\ Keyed(i, dependencies[d][2][n])
            /\ pos[<<entries[i].resourceType, entries[i].id>>]
                 < Highest(DepPositions(dependencies[d][1]))}

RECURSIVE AddIssues(_, _, _)
AddIssues(result, message, n) ==
    IF n = 0 THEN result ELSE AddIssues(add_issue(result, message), message, n - 1)

validate_bundle_dependency_order(b) ==
    LET r0 == ValidationResult("validate_bundle_dependency_order")
        n == Cardinality(order_issues(b.entry))
    IN  IF Len(b.entry) = 0 THEN [r0 EXCEPT !.passed = TRUE]
        ELSE IF n > 0 THEN AddIssues(r0, "comes before", IF n > 5 THEN 5 ELSE n)
        ELSE [r0 EXCEPT !.passed = TRUE]

\* the validator reads the written bundle and runs the check
ValidateDependencyOrder ==
    /\ pc = "saved"
    /\ results' = <<validate_bundle_dependency_order(bundle_file.content)>>
    /\ pc' = "validated"
    /\ UNCHANGED <<bundle, base_patient_id, uuid_map, all_used_ids, idx, run, error,
                   snapshot, assigned, last_alloc, bundle_file, exit_status>>
    /\ UNCHANGED countVars /\ UNCHANGED xmlVars
    /\ UNCHANGED splitVars /\ UNCHANGED addonVars

\* ------------------------------------------------- inputs of the last steps
SortedTypes ==
    {"Patient", "Medication", "MedicationRequest", "MedicationAdministration",
     "Encounter", "Organization", "SupplyDelivery"}

SortedEntries == {Entry(t, i) : t \in SortedTypes, i \in {U1, U2}} \cup {Entry("Encounter", NoString)}

InitSort ==
    \E k \in 0..MaxSortedEntries :
        \E b \in [1..k -> SortedEntries] : InitStage(b, "remove_shared_resources")

NextSort == RemoveSharedResources \/ SortEntries \/ SaveBundle \/ ValidateDependencyOrder

SpecSort == InitSort /\ [][NextSort]_vars

\* ================================================== remove_empty_encounters
REMOVE_ENCOUNTER_TYPES ==
    {"Well child visit (procedure)", "General examination of patient (procedure)"}

\* 'Encounter/<id>'
EncounterReference(id) == <<"Encounter/">> \o id

\* enc_ref.replace('Encounter/', '')
EncounterIdOf(enc_ref) == replace(enc_ref, <<"Encounter/">>, <<>>)

\* the types whose encounter link is one reference dict ...
SingleEncounterTypes ==
    {"Observation", "DiagnosticReport", "MedicationRequest", "Condition", "Procedure",
     "Immunization", "Composition", "MedicationAdministration", "CarePlan"}

\* ... and those that hold a list of them
ManyEncounterTypes == {"DocumentReference", "Claim", "ExplanationOfBenefit"}

\* encounter_refs of one resource: the non-empty 'reference' values found where
\* its type keeps the encounter links, without the 'Encounter/' prefix
encounter_refs(resource) ==
    LET found == IF resource.resourceType \in SingleEncounterTypes
                 THEN SubSeq(resource.encounter, 1, IF resource.encounter = <<>> THEN 0 ELSE 1)
                 ELSE IF resource.resourceType \in ManyEncounterTypes THEN resource.encounter
                 ELSE <<>>
        NonEmpty(enc_ref) == enc_ref # NoString
        given == SelectSeq(found, NonEmpty)
    IN  [n \in DOMAIN given |-> EncounterIdOf(given[n])]

\* first pass: ids of the encounters whose type text is in REMOVE_ENCOUNTER_TYPES
encounters_to_remove(entries) ==
    {entries[i].id : i \in {j \in DOMAIN entries :
                                /\ entries[j].resourceType = "Encounter"
                                /\ entries[j].type_text \in REMOVE_ENCOUNTER_TYPES}}

ResourceKey(resource) == <<resource.resourceType, resource.id>>

\* resource_encounter_map: 'type/id' -> encounter_refs, a later resource with
\* the same key replacing an earlier one
resource_encounter_map(entries) ==
    LET linked == {i \in DOMAIN entries :
                      /\ entries[i].resourceType # "Encounter"
                      /\ encounter_refs(entries[i]) # <<>>}
    IN  [k \in {ResourceKey(entries[i]) : i \in linked} |->
            encounter_refs(entries[CHOOSE i \in linked :
                                     /\ ResourceKey(entries[i]) = k
                                     /\ \A j \in linked : ResourceKey(entries[j]) = k => j <= i])]

\* the keys whose encounter references are all to encounters being removed
resources_to_remove(entries) ==
    LET m == resource_encounter_map(entries)
    IN  {k \in DOMAIN m : \A n \in DOMAIN m[k] : m[k][n] \in encounters_to_remove(entries)}

remove_empty_encounters(entries) ==
    LET Kept(entry) ==
            IF entry.resourceType = "Encounter" /\ entry.id \in encounters_to_remove(entries)
            THEN FALSE
            ELSE ResourceKey(entry) \notin resources_to_remove(entries)
    IN  IF encounters_to_remove(entries) = {} THEN entries ELSE SelectSeq(entries, Kept)

\* ----------------------------------- validate_dangling_encounter_references
\* the references the check extracts from one resource (empty ones included)
extract_func(resource) ==
    LET found == IF resource.resourceType \in SingleEncounterTypes \ {"CarePlan"}
                 THEN IF resource.encounter = <<>> THEN <<NoString>>
                      ELSE <<resource.encounter[1]>>
                 ELSE IF resource.resourceType = "CarePlan"
                 THEN SubSeq(resource.encounter, 1, IF resource.encounter = <<>> THEN 0 ELSE 1)
                 ELSE IF resource.resourceType \in ManyEncounterTypes THEN resource.encounter
                 ELSE <<>>
    IN  [n \in DOMAIN found |-> EncounterIdOf(found[n])]

dangling_references(entries) ==
    LET encounter_ids == {entries[i].id : i \in {j \in DOMAIN entries :
                              entries[j].resourceType = "Encounter" /\ entries[j].id # NoString}}
        Extracted == UNION {{<<i, n>> : n \in DOMAIN extract_func(entries[i])} :
                                i \in DOMAIN entries}
    IN  {p \in Extracted :
            /\ extract_func(entries[p[1]])[p[2]] # NoString
            /\ extract_func(entries[p[1]])[p[2]] \notin encounter_ids}

validate_dangling_encounter_references(entries) ==
    LET r0 == ValidationResult("validate_dangling_encounter_references")
        n == Cardinality(dangling_references(entries))
    IN  IF n > 0
        THEN AddIssues(add_issue(r0, "dangling Encounter references"), "dangling",
                       IF n > 10 THEN 10 ELSE n)
        ELSE [r0 EXCEPT !.passed = TRUE]

\* the check on the bundle before the removal
ValidateBeforeRemoval ==
    /\ pc = "validate_before_removal"
    /\ results' = <<validate_dangling_encounter_references(bundle)>>
    /\ pc' = "remove_empty_encounters"
    /\ UNCHANGED <<bundle, base_patient_id, uuid_map, all_used_ids, idx, run, error,
                   snapshot, assigned, last_alloc, bundle_file, exit_status>>
    /\ UNCHANGED countVars /\ UNCHANGED xmlVars
    /\ UNCHANGED splitVars /\ UNCHANGED addonVars

\* Step 12a
RemoveEmptyEncounters ==
    /\ pc = "remove_empty_encounters"
    /\ bundle' = remove_empty_encounters(bundle)
    /\ pc' = "encounters_removed"
    /\ UNCHANGED <<base_patient_id, uuid_map, all_used_ids, idx, run, error,
                   snapshot, assigned, last_alloc>>
    /\ UNCHANGED countVars /\ UNCHANGED xmlVars /\ UNCHANGED validatorVars
    /\ UNCHANGED splitVars /\ UNCHANGED addonVars

\* the check on the result
ValidateAfterRemoval ==
    /\ pc = "encounters_removed"
    /\ results' = Append(results, validate_dangling_encounter_references(bundle))
    /\ pc' = "removal_validated"
    /\ UNCHANGED <<bundle, base_patient_id, uuid_map, all_used_ids, idx, run, error,
                   snapshot, assigned, last_alloc, bundle_file, exit_status>>
    /\ UNCHANGED countVars /\ UNCHANGED xmlVars
    /\ UNCHANGED splitVars /\ UNCHANGED addonVars

\* ------------------------------------------ inputs of remove_empty_encounters
E1 == AlphanumericId("Encounter", 20)

E2 == AlphanumericId("Encounter", 21)

C1 == AlphanumericId("Condition", 40)

EncounterEntry(id, type_text) ==
    [resourceType |-> "Encounter", id |-> id, type_text |-> type_text, encounter |-> <<>>]

LinkedEntry(t, id, encounters) ==
    [resourceType |-> t, id |-> id, type_text |-> "", encounter |-> encounters]

EncounterEntries ==
    {EncounterEntry(E1, "Well child visit (procedure)"),
     EncounterEntry(E1, "Encounter for problem (procedure)"),
     EncounterEntry(E2, "General examination of patient (procedure)"),
     EncounterEntry(E2, "Encounter for problem (procedure)"),
     LinkedEntry("Condition", C1, <<>>),
     LinkedEntry("Condition", C1, <<EncounterReference(E1)>>),
     LinkedEntry("Claim", C1, <<EncounterReference(E1)>>),
     LinkedEntry("Claim", C1, <<EncounterReference(E1), EncounterReference(E2)>>),
     LinkedEntry("Patient", C1, <<>>)}

InitEncounters ==
    \E k \in 1..MaxEncounterEntries :
        \E b \in [1..k -> EncounterEntries] : InitStage(b, "validate_before_removal")

NextEncounters == ValidateBeforeRemoval \/ RemoveEmptyEncounters \/ ValidateAfterRemoval

SpecEncounters == InitEncounters /\ [][NextEncounters]_vars

\* ======================================================= generate_addon.py
ADDON_MODULE_NAME == "ccda_addon.json"

\* datetime.strptime(args.encounter_date, '%Y-%m-%d'): midnight of the day
\* named, or ValueError for a text of another shape.  Instants are counted in
\* half days: two per calendar day.
strptime(encounter_date) ==
    IF encounter_date.well_formed THEN encounter_date.day * 2 ELSE None

\* datetime.now()
Now(a) == a.today * 2 + a.half

\* The date test of main: TRUE when main goes on, FALSE when it returns 1.
EncounterDateAccepted(a) ==
    LET encounter_dt == strptime(a.encounter_date)
        today == Now(a)
        six_months_ago == today - 180 * 2
    IN  /\ encounter_dt # None
        /\ ~(encounter_dt > today)
        /\ ~(encounter_dt < six_months_ago)

\* one more entry of the trace of stages
Enter(stage, outcome) == Append(stages, [stage |-> stage, outcome |-> outcome])

\* cleanup_addon_from_modules: os.remove, or a warning when it raises
CleanedUp(folder, removed) == IF removed THEN folder \ {ADDON_MODULE_NAME} ELSE folder

\* `return 1` behind cleanup_addon_from_modules()
CleanupAndFail(stage, outcome) ==
    \E removed \in BOOLEAN :
        /\ stages' = Append(Enter(stage, outcome),
                            [stage |-> "cleanup_addon_from_modules",
                             outcome |-> IF removed THEN "ok" ELSE "not removed"])
        /\ modules_folder' = CleanedUp(modules_folder, removed)
        /\ pc' = "exited"
        /\ exit_status' = 1

AddonFrame ==
    /\ UNCHANGED <<bundle, base_patient_id, uuid_map, all_used_ids, idx, run, error,
                   snapshot, assigned, last_alloc, bundle_file, results, args>>
    /\ UNCHANGED countVars /\ UNCHANGED xmlVars /\ UNCHANGED splitVars

\* argument parsing and the encounter-date test
ValidateEncounterDate ==
    /\ pc = "main"
    /\ IF EncounterDateAccepted(args)
       THEN pc' = "move_addon_to_modules" /\ UNCHANGED exit_status
       ELSE pc' = "exited" /\ exit_status' = 1
    /\ UNCHANGED <<stages, modules_folder>>
    /\ AddonFrame

\* what move_addon_to_modules returns
move_addon_to_modules(outcome) == outcome = "copied"

\* Step 1.  shutil.copy2 writes the file and then its metadata: when it raises,
\* the file may or may not be in the modules folder.
MoveAddonToModules ==
    /\ pc = "move_addon_to_modules"
    /\ \E outcome \in {"copied", "source missing", "copy raised"}, written \in BOOLEAN :
         /\ written = (outcome = "copied") \/ outcome = "copy raised"
         /\ stages' = Enter("move_addon_to_modules", outcome)
         /\ modules_folder' = IF written THEN modules_folder \cup {ADDON_MODULE_NAME}
                              ELSE modules_folder
         /\ IF move_addon_to_modules(outcome)
            THEN pc' = "generate_synthea_ccda" /\ UNCHANGED exit_status
            ELSE pc' = "exited" /\ exit_status' = 1
    /\ AddonFrame

\* a generator that returns the file found although the run timed out
generate_synthea_ccda_ignores_timeout(outcome) ==
    IF outcome \in {"generated", "timed out"} THEN "ccda_file" ELSE "None"

\* what generate_synthea_ccda returns: the path of the file, or None
generate_synthea_ccda(outcome) ==
    IF outcome = "generated" THEN "ccda_file" ELSE "None"

\* Step 2
GenerateSyntheaCcda ==
    /\ pc = "generate_synthea_ccda"
    /\ \E outcome \in {"generated", "exit status not 0", "timed out", "no file",
                       "raised"} :
         IF generate_synthea_ccda(outcome) # "None"
         THEN /\ stages' = Enter("generate_synthea_ccda", outcome)
              /\ pc' = "fetch_patient_from_fhir"
              /\ UNCHANGED <<modules_folder, exit_status>>
         ELSE CleanupAndFail("generate_synthea_ccda", outcome)
    /\ AddonFrame

\* what fetch_patient_from_fhir returns; it catches RequestException only
fetch_patient_from_fhir(outcome) ==
    IF outcome = "found" THEN "patient" ELSE "None"

\* Step 3.  An exception that is no RequestException (IndexError of
\* patient.get('name', [{}])[0] on an empty list) leaves main.
FetchPatientFromFhir ==
    /\ pc = "fetch_patient_from_fhir"
    /\ \E outcome \in {"found", "not found", "request failed", "raised"} :
         IF outcome = "raised"
         THEN /\ stages' = Enter("fetch_patient_from_fhir", outcome)
              /\ pc' = "exited"
              /\ exit_status' = 1
              /\ UNCHANGED modules_folder
         ELSE IF fetch_patient_from_fhir(outcome) # "None"
         THEN /\ stages' = Enter("fetch_patient_from_fhir", outcome)
              /\ pc' = "fetch_organization_from_fhir"
              /\ UNCHANGED <<modules_folder, exit_status>>
         ELSE CleanupAndFail("fetch_patient_from_fhir", outcome)
    /\ AddonFrame

\* Step 4: a failed request yields the default organization; main does not
\* test the value returned
FetchOrganizationFromFhir ==
    /\ pc = "fetch_organization_from_fhir"
    /\ \E outcome \in {"found", "unknown practice", "raised"} :
         /\ stages' = Enter("fetch_organization_from_fhir", outcome)
         /\ IF outcome = "raised"
            THEN pc' = "exited" /\ exit_status' = 1
            ELSE pc' = "process_ccda_xml" /\ UNCHANGED exit_status
    /\ UNCHANGED modules_folder
    /\ AddonFrame

\* Step 5: process_ccda_xml catches every exception and returns None
ProcessCcdaXml ==
    /\ pc = "process_ccda_xml"
    /\ \E outcome \in {"processed", "parse error", "processing error"} :
         IF outcome = "processed"
         THEN /\ stages' = Enter("process_ccda_xml", outcome)
              /\ pc' = "save_final_xml"
              /\ UNCHANGED <<modules_folder, exit_status>>
         ELSE CleanupAndFail("process_ccda_xml", outcome)
    /\ AddonFrame

\* Step 6: save_final_xml catches every exception and returns None
SaveFinalXml ==
    /\ pc = "save_final_xml"
    /\ \E outcome \in {"saved", "not saved"} :
         IF outcome = "saved"
         THEN /\ stages' = Enter("save_final_xml", outcome)
              /\ pc' = "cleanup_addon_from_modules"
              /\ UNCHANGED <<modules_folder, exit_status>>
         ELSE CleanupAndFail("save_final_xml", outcome)
    /\ AddonFrame

\* Step 7 and `return 0`
CleanupAndReturn ==
    /\ pc = "cleanup_addon_from_modules"
    /\ \E removed \in BOOLEAN :
         /\ stages' = Enter("cleanup_addon_from_modules",
                            IF removed THEN "ok" ELSE "not removed")
         /\ modules_folder' = CleanedUp(modules_folder, removed)
    /\ pc' = "exited"
    /\ exit_status' = 0
    /\ AddonFrame

\* ----------------------------------------------------- inputs of the addon
\* --encounter-date: a text of another shape, or a day around the two limits
\* (the clock reads day 200, at midnight or later in the day)
EncounterDates ==
    {[well_formed |-> FALSE, day |-> 0]}
        \cup {[well_formed |-> TRUE, day |-> d] : d \in {19, 20, 21, 199, 200, 201}}

InitAddon ==
    \E d \in EncounterDates, h \in {0, 1} :
        /\ args = [encounter_date |-> d, today |-> 200, half |-> h]
        /\ stages = <<>>
        /\ modules_folder = {}
        /\ pc = "main"
        /\ bundle = <<>>
        /\ snapshot = <<>>
        /\ run = 1
        /\ base_patient_id = 10
        /\ uuid_map = EmptyMap
        /\ all_used_ids = {}
        /\ idx = 1
        /\ error = ""
        /\ reference_count = 0
        /\ conditional_ref_count = 0
        /\ assigned = <<>>
        /\ last_alloc = NoAlloc
        /\ XmlIdle
        /\ ValidatorIdle
        /\ SplitIdle

NextAddon ==
    \/ ValidateEncounterDate
    \/ MoveAddonToModules
    \/ GenerateSyntheaCcda
    \/ FetchPatientFromFhir
    \/ FetchOrganizationFromFhir
    \/ ProcessCcdaXml
    \/ SaveFinalXml
    \/ CleanupAndReturn

SpecAddon == InitAddon /\ [][NextAddon]_vars

\* ============================================== split_bundle_by_resource.py
NoRequest == [method |-> "", url |-> <<>>]

\* create_resource_bundle(resources, bundle_type="transaction"): its entries
create_resource_bundle(resources) ==
    [n \in DOMAIN resources |->
        [resource |-> resources[n],
         request |-> IF resources[n].resourceType # "" /\ resources[n].id # NoString
                     THEN [method |-> "PUT",
                           url |-> <<resources[n].resourceType, "/", resources[n].id>>]
                     ELSE NoRequest]]

\* resource type -> file name suffix, in the order of the dict
resource_file_names ==
    <<<<"Condition", "Condition">>, <<"Procedure", "Procedure">>,
      <<"Observation", "Observations">>, <<"DiagnosticReport", "DiagnosticReport">>,
      <<"ImagingStudy", "ImagingStudy">>, <<"Media", "Media">>, <<"Specimen", "Specimen">>,
      <<"Medication", "Medication">>, <<"MedicationRequest", "MedicationRequests">>,
      <<"MedicationStatement", "MedicationStatements">>,
      <<"MedicationAdministration", "MedicationAdministration">>,
      <<"Immunization", "Immunization">>, <<"AllergyIntolerance", "AllergyIntolerance">>,
      <<"CarePlan", "CarePlan">>, <<"CareTeam", "CareTeam">>, <<"Goal", "Goal">>,
      <<"ServiceRequest", "ServiceRequest">>, <<"Task", "Task">>,
      <<"Encounter", "Encounters">>, <<"EpisodeOfCare", "EpisodeOfCare">>,
      <<"Appointment", "Appointment">>, <<"DocumentReference", "DocumentReference">>,
      <<"Composition", "Composition">>, <<"Practitioner", "Practitioner">>,
      <<"PractitionerRole", "PractitionerRole">>, <<"Organization", "Organization">>,
      <<"Location", "Location">>, <<"HealthcareService", "HealthcareService">>,
      <<"Claim", "Claim">>, <<"ExplanationOfBenefit", "ExplanationOfBenefit">>,
      <<"Coverage", "Coverage">>, <<"Device", "Device">>,
      <<"DeviceRequest", "DeviceRequest">>, <<"DeviceUseStatement", "DeviceUseStatement">>,
      <<"FamilyMemberHistory", "FamilyMemberHistory">>, <<"RelatedPerson", "RelatedPerson">>,
      <<"ClinicalImpression", "ClinicalImpression">>, <<"DetectedIssue", "DetectedIssue">>,
      <<"RiskAssessment", "RiskAssessment">>, <<"Binary", "Binary">>,
      <<"Provenance", "Provenance">>, <<"AuditEvent", "AuditEvent">>>>

\* f"{patient_id}{file_name_suffix}.json"
FileName(id, suffix) == <<id, suffix, ".json">>

SplitFrame ==
    /\ UNCHANGED <<bundle, base_patient_id, uuid_map, all_used_ids, run, error,
                   snapshot, assigned, last_alloc>>
    /\ UNCHANGED countVars /\ UNCHANGED xmlVars /\ UNCHANGED validatorVars
    /\ UNCHANGED addonVars

\* one iteration of the grouping loop
GroupResource ==
    /\ pc = "group_resources"
    /\ idx <= Len(bundle)
    /\ LET resource == bundle[idx]
           resource_type == resource.resourceType
       IN  IF resource_type = ""
           THEN UNCHANGED <<resources_by_type, patient_id>>
           ELSE /\ resources_by_type' =
                     Put(resources_by_type, resource_type,
                         Append(IF resource_type \in DOMAIN resources_by_type
                                THEN resources_by_type[resource_type] ELSE <<>>, resource))
                /\ patient_id' = IF resource_type = "Patient" /\ patient_id = NoString
                                 THEN resource.id ELSE patient_id
    /\ idx' = idx + 1
    /\ UNCHANGED <<pc, files>>
    /\ SplitFrame

\* the loop is over: `if not patient_id: patient_id = 'unknown'`
NamePatient ==
    /\ pc = "group_resources"
    /\ idx > Len(bundle)
    /\ patient_id' = IF patient_id = NoString THEN <<"unknown">> ELSE patient_id
    /\ pc' = "write_patient_file"
    /\ UNCHANGED <<idx, resources_by_type, files>>
    /\ SplitFrame

\* the Patient file
WritePatientFile ==
    /\ pc = "write_patient_file"
    /\ files' = IF "Patient" \in DOMAIN resources_by_type
                THEN Put(files, FileName(patient_id, "Patient"),
                         create_resource_bundle(resources_by_type["Patient"]))
                ELSE files
    /\ pc' = "write_resource_files"
    /\ idx' = 1
    /\ UNCHANGED <<resources_by_type, patient_id>>
    /\ SplitFrame

\* one iteration of `for resource_type, file_name_suffix in resource_file_names.items()`
WriteResourceFile ==
    /\ pc = "write_resource_files"
    /\ idx <= Len(resource_file_names)
    /\ LET resource_type == resource_file_names[idx][1]
           file_name_suffix == resource_file_names[idx][2]
       IN  files' = IF resource_type \in DOMAIN resources_by_type /\ resource_type # "Patient"
                    THEN Put(files, FileName(patient_id, file_name_suffix),
                             create_resource_bundle(resources_by_type[resource_type]))
                    ELSE files
    /\ idx' = idx + 1
    /\ UNCHANGED <<pc, resources_by_type, patient_id>>
    /\ SplitFrame

SplitReturn ==
    /\ pc = "write_resource_files"
    /\ idx > Len(resource_file_names)
    /\ pc' = "split_done"
    /\ UNCHANGED <<idx, resources_by_type, patient_id, files>>
    /\ SplitFrame

\* ------------------------------------------------------ inputs of the split
SplitEntries ==
    {[resourceType |-> t, id |-> i] :
        t \in {"Patient", "Encounter", "Observation", "SupplyDelivery"}, i \in {E1, E2}}
      \cup {[resourceType |-> "", id |-> E1], [resourceType |-> "Encounter", id |-> NoString]}

InitSplit ==
    \E k \in 0..MaxSplitEntries :
        \E b \in [1..k -> SplitEntries] :
            /\ bundle = b
            /\ snapshot = b
            /\ pc = "group_resources"
            /\ resources_by_type = EmptyMap
            /\ patient_id = NoString
            /\ files = EmptyMap
            /\ run = 1
            /\ base_patient_id = 10
            /\ uuid_map = EmptyMap
            /\ all_used_ids = {}
            /\ idx = 1
            /\ error = ""
            /\ reference_count = 0
            /\ conditional_ref_count = 0
            /\ assigned = <<>>
            /\ last_alloc = NoAlloc
            /\ XmlIdle
            /\ ValidatorIdle
            /\ AddonIdle

NextSplit ==
    GroupResource \/ NamePatient \/ WritePatientFile \/ WriteResourceFile \/ SplitReturn

SpecSplit == InitSplit /\ [][NextSplit]_vars

\* ============================ update_all_references: the nested containers
\* A JSON value below a resource: a dict (with or without a 'reference' key
\* and with its other values), or a list (with its items).  Strings and numbers
\* are left out: update_reference does nothing on them.
NoRef == [form |-> "", type |-> "", key |-> NoString]

Dict(ref, values) == [kind |-> "dict", reference |-> ref, values |-> values]

List(items) == [kind |-> "list", reference |-> NoRef, values |-> items]

\* update_reference(obj): the value after the call.  The branch of a
\* conditional reference ends with `return`, before the loop over obj.values().
RECURSIVE update_reference(_, _)
update_reference(obj, m) ==
    IF obj.kind = "dict"
    THEN IF obj.reference # NoRef /\ obj.reference.form = "cond"
         THEN [obj EXCEPT !.reference = UpdateReference(@, m)]
         ELSE [obj EXCEPT
                 !.reference = IF @ # NoRef THEN UpdateReference(@, m) ELSE @,
                 !.values = [n \in DOMAIN @ |-> update_reference(@[n], m)]]
    ELSE [obj EXCEPT !.values = [n \in DOMAIN @ |-> update_reference(@[n], m)]]

RECURSIVE Sum(_)
Sum(s) == IF s = <<>> THEN 0 ELSE s[1] + Sum(SubSeq(s, 2, Len(s)))

\* what one call adds to reference_count (conditional = FALSE) or to
\* conditional_ref_count (conditional = TRUE)
RECURSIVE CountUpdated(_, _, _)
CountUpdated(obj, m, conditional) ==
    LET below == Sum([n \in DOMAIN obj.values |-> CountUpdated(obj.values[n], m, conditional)])
        own == IF /\ obj.reference # NoRef
                  /\ Resolves(obj.reference, m)
                  /\ (conditional => obj.reference.form = "cond")
               THEN 1 ELSE 0
    IN  IF obj.kind = "dict" /\ obj.reference # NoRef /\ obj.reference.form = "cond"
        THEN own
        ELSE own + below

\* update_all_references on entries whose resources are nested values
UpdateAllReferencesNested ==
    /\ pc = "update_all_references"
    /\ bundle' = [i \in DOMAIN bundle |->
                    [bundle[i] EXCEPT !.resource = update_reference(@, uuid_map)]]
    /\ reference_count' =
          Sum([i \in DOMAIN bundle |-> CountUpdated(bundle[i].resource, uuid_map, FALSE)])
    /\ conditional_ref_count' =
          Sum([i \in DOMAIN bundle |-> CountUpdated(bundle[i].resource, uuid_map, TRUE)])
    /\ pc' = "done"
    /\ UNCHANGED <<base_patient_id, uuid_map, all_used_ids, idx, run, error,
                   snapshot, assigned, last_alloc>>
    /\ UNCHANGED xmlVars /\ UNCHANGED validatorVars
    /\ UNCHANGED splitVars /\ UNCHANGED addonVars

\* ------------------------------------------------- inputs of the nested walk
NestedRefs == {NoRef, UrnRef(U1), CondRef("Encounter", N1), CondRef("Encounter", U2)}

LeafDicts == {Dict(r, <<>>) : r \in NestedRefs}

\* a dict with at most one value that is a container: a dict or a list of one
NestedDicts ==
    LeafDicts \cup {Dict(r, <<c>>) : r \in NestedRefs,
                                     c \in LeafDicts \cup {List(<<d>>) : d \in LeafDicts}}

InitNested ==
    \E k \in 0..MaxNestedValues :
        \E v \in [1..k -> NestedDicts], m \in XmlMaps({U1, N1}) :
            /\ bundle = <<[resourceType |-> "Encounter", id |-> E1, resource |-> Dict(NoRef, v)]>>
            /\ snapshot = bundle
            /\ uuid_map = m
            /\ pc = "update_all_references"
            /\ run = 1
            /\ base_patient_id = 10
            /\ all_used_ids = {}
            /\ idx = 1
            /\ error = ""
            /\ reference_count = 0
            /\ conditional_ref_count = 0
            /\ assigned = <<>>
            /\ last_alloc = NoAlloc
            /\ XmlIdle
            /\ ValidatorIdle
            /\ SplitIdle /\ AddonIdle

SpecNested == InitNested /\ [][UpdateAllReferencesNested]_vars

\* ================= convert_to_athena_format: the steps that create entries
\* A CodeableConcept by its 'text' and its 'coding' list.
Coding(system, code, display) == [system |-> system, code |-> code, display |-> display]

NoConcept == [text |-> NoString, coding |-> <<>>]

\* a medicationReference dict by its 'reference' and 'display' values
NoMedicationReference == [reference |-> NoRef, display |-> NoString]

\* An entry of the bundle with the fields the steps below read: `keys` holds
\* which of the two medication[x] keys the resource has.
ClinicalFields ==
    [type_text |-> "",
     encounter |-> <<>>,
     code |-> NoConcept,
     keys |-> {},
     medicationCodeableConcept |-> NoConcept,
     medicationReference |-> NoMedicationReference,
     series |-> <<>>,
     type |-> NoConcept,
     section |-> <<>>]

ClinicalEntry(t, i) == Entry(t, i) @@ ClinicalFields

\* f"{type}/{id}" as it is written into 'fullUrl'
FullUrl(t, id) == <<t, "/">> \o id

\* ------------------ Step 9: convert_medication_codeable_concept_to_reference
\* the name of a Medication: code.text, else the display of the first coding
MedicationName(code) ==
    IF code.text # NoString THEN code.text
    ELSE IF code.coding # <<>> THEN code.coding[1].display
    ELSE NoString

\* med_map: Medication id -> name, a later Medication replacing an earlier one
med_map(entries) ==
    LET meds == {i \in DOMAIN entries :
                    entries[i].resourceType = "Medication" /\ entries[i].id # NoString}
    IN  [k \in {entries[i].id : i \in meds} |->
            MedicationName(entries[CHOOSE i \in meds :
                              /\ entries[i].id = k
                              /\ \A j \in meds : entries[j].id = k => j <= i].code)]

\* the id that a medicationReference names: after 'urn:uuid:' or the last '/'
ReferencedMedication(ref) == ref.key

\* resource.get('id', 'unknown')
IdOrUnknown(resource) == IF resource.id = NoString THEN <<"unknown">> ELSE resource.id

\* f"med-{resource_id}"
MedicationId(resource) == <<"med-">> \o IdOrUnknown(resource)

\* text, else coding[0].display, else f"Medication-{id}"
ConceptDisplay(resource) ==
    LET name == MedicationName(resource.medicationCodeableConcept)
    IN  IF name # NoString THEN name ELSE <<"Medication-">> \o IdOrUnknown(resource)

\* Case 2 applies: a MedicationRequest without medicationReference that has
\* medicationCodeableConcept
Converted(resource) ==
    /\ resource.resourceType = "MedicationRequest"
    /\ "medicationReference" \notin resource.keys
    /\ "medicationCodeableConcept" \in resource.keys

\* one iteration of the loop, as it leaves the MedicationRequest
ConvertMedicationRequest(resource, names) ==
    IF resource.resourceType # "MedicationRequest" THEN resource
    ELSE IF Converted(resource)
    THEN [resource EXCEPT
            !.medicationReference =
                [reference |-> TypedRef("Medication", MedicationId(resource)),
                 display |-> ConceptDisplay(resource)],
            !.medicationCodeableConcept = NoConcept,
            !.keys = {"medicationReference"}]
    ELSE IF "medicationReference" \in resource.keys
    THEN \* Case 1: the display of a known Medication is filled in when missing
         LET med_id == ReferencedMedication(resource.medicationReference.reference)
         IN  IF med_id \in DOMAIN names /\ resource.medicationReference.display = NoString
             THEN [resource EXCEPT !.medicationReference.display = names[med_id]]
             ELSE resource
    ELSE resource

\* the Medication entry created for a converted request
MedicationEntry(resource) ==
    [ClinicalEntry("Medication", MedicationId(resource)) EXCEPT
        !.code = resource.medicationCodeableConcept,
        !.request = [method |-> "PUT",
                     url |-> [type |-> "Medication", id |-> MedicationId(resource)]],
        !.fullUrl = NoString]

convert_medication_codeable_concept_to_reference(entries) ==
    LET names == med_map(entries)
        new_medication_entries ==
            LET requests == SelectSeq(entries, Converted)
            IN  [n \in DOMAIN requests |-> MedicationEntry(requests[n])]
    IN  [i \in DOMAIN entries |-> ConvertMedicationRequest(entries[i], names)]
            \o new_medication_entries

\* the variables no step after update_all_references changes
LaterFrame ==
    /\ UNCHANGED <<base_patient_id, uuid_map, all_used_ids, idx, run, error,
                   snapshot, assigned, last_alloc>>
    /\ UNCHANGED countVars /\ UNCHANGED xmlVars /\ UNCHANGED validatorVars
    /\ UNCHANGED splitVars /\ UNCHANGED addonVars

ConvertMedicationCodeableConceptToReference ==
    /\ pc = "done"
    /\ bundle' = convert_medication_codeable_concept_to_reference(bundle)
    /\ pc' = "generate_observations_for_diagnostic_reports"
    /\ LaterFrame

\* --------------------- Step 9c: generate_observations_for_diagnostic_reports
\* PANEL_DEFINITIONS by the number of observations of a panel (scaled: two for
\* the blood count, one for HbA1c)
PANEL_DEFINITIONS == [c \in {"58410-2", "4548-4"} |-> IF c = "58410-2" THEN 2 ELSE 1]

\* the DiagnosticReport has codings and the first one names a panel
IsPanel(resource) ==
    /\ resource.resourceType = "DiagnosticReport"
    /\ resource.code.coding # <<>>
    /\ resource.code.coding[1].code \in DOMAIN PANEL_DEFINITIONS

\* the number of observations generated for the entries from position i on
RECURSIVE PanelObservations(_, _)
PanelObservations(entries, i) ==
    IF i > Len(entries) THEN 0
    ELSE (IF IsPanel(entries[i]) THEN PANEL_DEFINITIONS[entries[i].code.coding[1].code] ELSE 0)
         + PanelObservations(entries, i + 1)

\* the entry of a generated Observation
ObservationEntry(obs_id) ==
    [ClinicalEntry("Observation", obs_id) EXCEPT
        !.request = [method |-> "POST", url |-> [type |-> "Observation", id |-> NoString]],
        !.fullUrl = FullUrl("Observation", obs_id)]

\* obs_id_counter starts at ID_RANGES['Observation'][0] and is incremented
\* after every generated observation
generate_observations_for_diagnostic_reports(entries) ==
    LET obs_id_counter == ID_RANGES["Observation"][1]
        new_observations ==
            [n \in 1..PanelObservations(entries, 1) |->
                ObservationEntry(AlphanumericId("Observation", obs_id_counter + n - 1))]
    IN  entries \o new_observations

GenerateObservationsForDiagnosticReports ==
    /\ pc = "generate_observations_for_diagnostic_reports"
    /\ bundle' = generate_observations_for_diagnostic_reports(bundle)
    /\ pc' = "remove_clinical_documentation_diagnostic_reports"
    /\ LaterFrame

\* ------------- Step 10a: remove_clinical_documentation_diagnostic_reports
clinical_doc_loinc_codes ==
    {"34117-2", "11488-4", "18842-5", "11506-3", "28570-0", "34133-9", "11504-8"}

is_clinical_doc(resource) ==
    \E n \in DOMAIN resource.code.coding :
        /\ resource.code.coding[n].system = "http://loinc.org"
        /\ resource.code.coding[n].code \in clinical_doc_loinc_codes

KeptByDocumentationFilter(resource) ==
    /\ resource.resourceType # "Provenance"
    /\ resource.resourceType = "DiagnosticReport" => ~is_clinical_doc(resource)

RemoveClinicalDocumentationDiagnosticReports ==
    /\ pc = "remove_clinical_documentation_diagnostic_reports"
    /\ bundle' = SelectSeq(bundle, KeptByDocumentationFilter)
    /\ pc' = "generate_diagnostic_reports_for_imaging_studies"
    /\ LaterFrame

\* --------------- Step 10b: generate_diagnostic_reports_for_imaging_studies
IsImagingStudy(resource) == resource.resourceType = "ImagingStudy"

\* ID_RANGES['DiagnosticReport'][0] + 50000, the offset scaled to RangeSize
dr_id_start == ID_RANGES["DiagnosticReport"][1] + RangeSize

\* the entry of the report generated for the idx-th imaging study (from 0)
ImagingReportEntry(imaging_study, index) ==
    LET dr_id == AlphanumericId("DiagnosticReport", dr_id_start + index)
    IN  [ClinicalEntry("DiagnosticReport", dr_id) EXCEPT
            !.encounter = imaging_study.encounter,
            !.code = [text |-> <<"Diagnostic imaging study">>,
                      coding |-> <<Coding("http://loinc.org", "18748-4",
                                          <<"Diagnostic imaging study">>)>>],
            !.request = [method |-> "PUT",
                         url |-> [type |-> "DiagnosticReport", id |-> dr_id]],
            !.fullUrl = NoString]

generate_diagnostic_reports_for_imaging_studies(entries) ==
    LET imaging_studies == SelectSeq(entries, IsImagingStudy)
    IN  entries \o [n \in DOMAIN imaging_studies |->
                        ImagingReportEntry(imaging_studies[n], n - 1)]

GenerateDiagnosticReportsForImagingStudies ==
    /\ pc = "generate_diagnostic_reports_for_imaging_studies"
    /\ bundle' = generate_diagnostic_reports_for_imaging_studies(bundle)
    /\ pc' = "generate_compositions_for_encounters"
    /\ LaterFrame

\* ------------------------------ Step 12: generate_compositions_for_encounters
IsEncounter(resource) == resource.resourceType = "Encounter"

\* f"comp-{encounter_id}"
CompositionId(encounter) ==
    <<"comp-">> \o (IF encounter.id = NoString THEN <<"None">> ELSE encounter.id)

CompositionEntry(encounter) ==
    [ClinicalEntry("Composition", CompositionId(encounter)) EXCEPT
        !.encounter = <<EncounterReference(IF encounter.id = NoString THEN <<"None">>
                                           ELSE encounter.id)>>,
        !.type = [text |-> NoString,
                  coding |-> <<Coding("http://loinc.org", "34133-9",
                                      <<"Summary of episode note">>)>>],
        !.section = <<[title |-> <<"A", "ssessment", "/Plan">>,
                       code |-> [text |-> NoString,
                                 coding |-> <<Coding("http://loinc.org", "51847-2",
                                                     <<"Assessment/Plan">>)>>]]>>,
        !.request = [method |-> "PUT",
                     url |-> [type |-> "Composition", id |-> CompositionId(encounter)]],
        !.fullUrl = FullUrl("Composition", CompositionId(encounter))]

\* one Composition per Encounter, in the order of sorted(encounters,
\* key=period.start): a stable sort, and no entry here has a period
generate_compositions_for_encounters(entries) ==
    LET encounters_sorted == SelectSeq(entries, IsEncounter)
    IN  entries \o [n \in DOMAIN encounters_sorted |-> CompositionEntry(encounters_sorted[n])]

GenerateCompositionsForEncounters ==
    /\ pc = "generate_compositions_for_encounters"
    /\ bundle' = generate_compositions_for_encounters(bundle)
    /\ pc' = "remove_empty_encounters"
    /\ LaterFrame

\* -------------------- Step 12c: generate_binary_resources_for_imaging_studies
\* <<entry, series, instance>> of every instance of every ImagingStudy, in the
\* order of the three nested loops
RECURSIVE InstancesOfSeries(_, _, _)
InstancesOfSeries(entries, i, s) ==
    IF s > Len(entries[i].series) THEN <<>>
    ELSE [n \in DOMAIN entries[i].series[s].instance |-> <<i, s, n>>]
         \o InstancesOfSeries(entries, i, s + 1)

RECURSIVE InstancesFrom(_, _)
InstancesFrom(entries, i) ==
    IF i > Len(entries) THEN <<>>
    ELSE (IF IsImagingStudy(entries[i]) THEN InstancesOfSeries(entries, i, 1) ELSE <<>>)
         \o InstancesFrom(entries, i + 1)

BinaryEntry(binary_id) ==
    [ClinicalEntry("Binary", binary_id) EXCEPT
        !.request = [method |-> "POST", url |-> [type |-> "Binary", id |-> NoString]],
        !.fullUrl = FullUrl("Binary", binary_id)]

\* binary_id_counter starts at ID_RANGES['Binary'][0] and is incremented after
\* every instance whose placeholder image was generated; `failed` holds the
\* instances for which generate_placeholder_image raised
generate_binary_resources_for_imaging_studies(entries, failed) ==
    LET Generated(p) == p \notin failed
        imaged == SelectSeq(InstancesFrom(entries, 1), Generated)
        binary_id_counter == ID_RANGES["Binary"][1]
        binary_id(n) == AlphanumericId("Binary", binary_id_counter + n - 1)
        Rank(p) == CHOOSE n \in DOMAIN imaged : imaged[n] = p
        WithUrl(i, s, n, instance) ==
            IF <<i, s, n>> \in failed THEN instance
            ELSE [instance EXCEPT !.url = FullUrl("Binary", binary_id(Rank(<<i, s, n>>)))]
        Linked(i) ==
            IF ~IsImagingStudy(entries[i]) THEN entries[i]
            ELSE [entries[i] EXCEPT !.series =
                    [s \in DOMAIN @ |->
                        [@[s] EXCEPT !.instance =
                            [n \in DOMAIN @ |-> WithUrl(i, s, n, @[n])]]]]
    IN  [i \in DOMAIN entries |-> Linked(i)]
            \o [n \in DOMAIN imaged |-> BinaryEntry(binary_id(n))]

GenerateBinaryResourcesForImagingStudies ==
    /\ pc = "encounters_removed"
    /\ \E failed \in SUBSET {InstancesFrom(bundle, 1)[n] : n \in DOMAIN InstancesFrom(bundle, 1)} :
          bundle' = generate_binary_resources_for_imaging_studies(bundle, failed)
    /\ pc' = "remove_shared_resources"
    /\ LaterFrame

\* ------------------------------------------- inputs of the creating steps
MedicationRequestEntry(i, keys, concept, reference) ==
    [ClinicalEntry("MedicationRequest", i) EXCEPT
        !.keys = keys,
        !.medicationCodeableConcept = concept,
        !.medicationReference = reference]

PanelReport(i, code) ==
    [ClinicalEntry("DiagnosticReport", i) EXCEPT
        !.code = [text |-> NoString, coding |-> <<Coding("http://loinc.org", code, NoString)>>]]

ImagingStudyEntry(i) ==
    [ClinicalEntry("ImagingStudy", i) EXCEPT
        !.series = <<[instance |-> <<[url |-> NoString]>>]>>]

Drug == <<"d", "r", "u", "g">>

GeneratingEntries ==
    {[ClinicalEntry("Observation", U1) EXCEPT !.reference = <<[reference |-> UrnRef(U2)]>>],
     PanelReport(U2, "4548-4"),
     PanelReport(U1, "34117-2"),
     ImagingStudyEntry(U1),
     [ClinicalEntry("Encounter", U2) EXCEPT !.type_text = "Well child visit (procedure)"],
     ClinicalEntry("Encounter", U1),
     MedicationRequestEntry(U1, {"medicationCodeableConcept"},
                            [text |-> Drug, coding |-> <<>>], NoMedicationReference),
     MedicationRequestEntry(U2, {"medicationCodeableConcept"},
                            NoConcept, NoMedicationReference),
     MedicationRequestEntry(U2, {"medicationReference", "medicationCodeableConcept"},
                            [text |-> Drug, coding |-> <<>>],
                            [reference |-> TypedRef("Medication", D1), display |-> NoString]),
     [ClinicalEntry("Medication", D1) EXCEPT !.code = [text |-> Drug, coding |-> <<>>]],
     ClinicalEntry("Patient", U1),
     ClinicalEntry("Provenance", U2)}

InitGenerate ==
    \E k \in 1..MaxGeneratingEntries :
        \E b \in [1..k -> GeneratingEntries] :
            /\ InitRun(b)
            /\ base_patient_id = 10

\* ================================== validate_patient.py: three of the checks
\* the resources of one type, in bundle order (resources_by_type[t])
ResourcesOfType(b, t) ==
    LET OfType(resource) == resource.resourceType = t
    IN  SelectSeq(b.entry, OfType)

RECURSIVE AddAllIssues(_, _)
AddAllIssues(result, messages) ==
    IF messages = <<>> THEN result
    ELSE AddAllIssues(add_issue(result, Head(messages)), Tail(messages))

\* ------------------------------------------------ validate_medication_request
\* the issue the loop reports for one MedicationRequest ("" for none)
MedicationRequestIssue(resource) ==
    IF "medicationCodeableConcept" \in resource.keys
    THEN "Uses medicationCodeableConcept"
    ELSE IF "medicationReference" \notin resource.keys
    THEN "Missing medication field"
    ELSE IF resource.medicationReference.display = NoString
    THEN "medicationReference missing display field"
    ELSE ""

validate_medication_request(b) ==
    LET r0 == ValidationResult("validate_medication_request")
        resources == ResourcesOfType(b, "MedicationRequest")
        resource_count == Len(resources)
        Reported(resource) == MedicationRequestIssue(resource) # ""
        reported == SelectSeq(resources, Reported)
        validated_count == resource_count - Len(reported)
        result == AddAllIssues(r0, [n \in DOMAIN reported |-> MedicationRequestIssue(reported[n])])
    IN  IF resource_count = 0 THEN r0
        ELSE IF validated_count = resource_count THEN [result EXCEPT !.passed = TRUE]
        ELSE result

\* ---------------------------------------------- validate_medication_resources
\* ref in medication_ids: the id of a Medication, 'Medication/<id>' or
\* 'urn:uuid:<id>'
InMedicationIds(ref, b) ==
    \E i \in DOMAIN b.entry :
        /\ b.entry[i].resourceType = "Medication"
        /\ Truthy(b.entry[i].id)
        /\ b.entry[i].id.json = "string"
        /\ ref.key = b.entry[i].id.text
        /\ \/ ref.form = "" /\ ref.type = ""
           \/ ref.form = "typed" /\ ref.type = "Medication"
           \/ ref.form = "urn"

MedicationResourceIssue(resource, b) ==
    LET ref == IF "medicationReference" \in resource.keys
               THEN resource.medicationReference.reference ELSE NoRef
    IN  IF ref = NoRef THEN "medicationReference has no reference field"
        ELSE IF ~InMedicationIds(ref, b) THEN "doesn't exist in bundle"
        ELSE ""

validate_medication_resources(b) ==
    LET r0 == ValidationResult("validate_medication_resources")
        med_requests == ResourcesOfType(b, "MedicationRequest")
        resource_count == Len(med_requests)
        Reported(mr) == MedicationResourceIssue(mr, b) # ""
        reported == SelectSeq(med_requests, Reported)
        validated_count == resource_count - Len(reported)
        result == AddAllIssues(r0, [n \in DOMAIN reported |->
                                       MedicationResourceIssue(reported[n], b)])
    IN  IF resource_count = 0 THEN [r0 EXCEPT !.passed = TRUE]
        ELSE IF validated_count = resource_count THEN [result EXCEPT !.passed = TRUE]
        ELSE result

\* ---------------------------------------- validate_composition_for_encounters
\* enc_ref.split('/')[-1]: what follows the last '/' ('Encounter/' is one
\* element of the sequence)
RECURSIVE AfterLastSlash(_)
AfterLastSlash(s) ==
    IF s = <<>> THEN <<>>
    ELSE IF s[Len(s)] \in {"/", "Encounter/"} THEN <<>>
    ELSE Append(AfterLastSlash(SubSeq(s, 1, Len(s) - 1)), s[Len(s)])

\* comp.get('encounter', {}).get('reference', '')
CompositionEncounter(comp) == IF comp.encounter = <<>> THEN NoString ELSE comp.encounter[1]

\* 'ssessment' in title.lower() for some section
has_assessment_section(comp) ==
    \E n \in DOMAIN comp.section : In(<<"ssessment">>, lower(comp.section[n].title))

\* code of the first coding, "" where there is none
FirstCode(concept) == IF concept.coding = <<>> THEN "" ELSE concept.coding[1].code

\* the result after the loop body ran for one Composition
CheckComposition(result, comp) ==
    IF CompositionEncounter(comp) = NoString
    THEN add_warning(result, "No encounter reference")
    ELSE IF comp.section = <<>>
    THEN add_issue(result, "No sections found")
    ELSE LET r1 == IF has_assessment_section(comp) THEN result
                   ELSE add_issue(result, "No section with title containing 'ssessment'")
             r2 == IF FirstCode(comp.type) # "34133-9"
                   THEN add_warning(r1, "type.coding[0].code should be '34133-9'") ELSE r1
         IN  IF has_assessment_section(comp) /\ FirstCode(comp.section[1].code) # "51847-2"
             THEN add_warning(r2, "section[0].code.coding[0].code should be '51847-2'")
             ELSE r2

RECURSIVE CheckCompositions(_, _)
CheckCompositions(result, compositions) ==
    IF compositions = <<>> THEN result
    ELSE CheckCompositions(CheckComposition(result, Head(compositions)), Tail(compositions))

\* the keys of encounter_to_composition: it is written for every Composition
\* with an encounter reference, before the sections are looked at
encounter_to_composition(compositions) ==
    {AfterLastSlash(CompositionEncounter(compositions[n])) :
        n \in {m \in DOMAIN compositions : CompositionEncounter(compositions[m]) # NoString}}

validate_composition_for_encounters(b) ==
    LET r0 == ValidationResult("validate_composition_for_encounters")
        encounters == ResourcesOfType(b, "Encounter")
        compositions == ResourcesOfType(b, "Composition")
        resource_count == Len(encounters)
        encounter_ids == {encounters[n].id.text :
                              n \in {m \in DOMAIN encounters : Truthy(encounters[m].id)}}
        r1 == CheckCompositions(r0, compositions)
        validated_count ==
            Cardinality(encounter_ids \cap encounter_to_composition(compositions))
        encounters_without_compositions ==
            encounter_ids \ encounter_to_composition(compositions)
        r2 == IF encounters_without_compositions # {}
              THEN add_issue(r1, "encounter(s) have NO Composition") ELSE r1
    IN  IF resource_count = 0 THEN [r0 EXCEPT !.passed = TRUE]
        ELSE IF Len(compositions) = 0 THEN add_issue(r0, "No Composition resources found")
        ELSE IF validated_count = resource_count THEN [r2 EXCEPT !.passed = TRUE]
        ELSE r2

\* the variables a check leaves alone
CheckFrame ==
    /\ UNCHANGED <<bundle, base_patient_id, uuid_map, all_used_ids, idx, run, error,
                   snapshot, assigned, last_alloc, bundle_file, exit_status>>
    /\ UNCHANGED countVars /\ UNCHANGED xmlVars
    /\ UNCHANGED splitVars /\ UNCHANGED addonVars

\* the validator reads the written bundle and runs the three checks
ValidateMedicationResources ==
    /\ pc = "saved"
    /\ results' = <<validate_medication_resources(bundle_file.content)>>
    /\ pc' = "validate_medication_request"
    /\ CheckFrame

ValidateMedicationRequest ==
    /\ pc = "validate_medication_request"
    /\ results' = Append(results, validate_medication_request(bundle_file.content))
    /\ pc' = "validate_composition_for_encounters"
    /\ CheckFrame

ValidateCompositionForEncounters ==
    /\ pc = "validate_composition_for_encounters"
    /\ results' = Append(results, validate_composition_for_encounters(bundle_file.content))
    /\ pc' = "checked"
    /\ CheckFrame

\* --------------------------------------------------- inputs of the checks
Section(title) ==
    [title |-> title,
     code |-> [text |-> NoString,
               coding |-> <<Coding("http://loinc.org", "51847-2", <<"Assessment/Plan">>)>>]]

CompositionFor(i, encounters, sections) ==
    [ClinicalEntry("Composition", i) EXCEPT
        !.encounter = encounters,
        !.section = sections,
        !.type = [text |-> NoString,
                  coding |-> <<Coding("http://loinc.org", "34133-9", NoString)>>]]

CheckedEntries ==
    {ClinicalEntry("Encounter", E1),
     ClinicalEntry("Encounter", E2),
     CompositionFor(<<"comp-">> \o E1, <<EncounterReference(E1)>>,
                    <<Section(<<"A", "ssessment", "/Plan">>)>>),
     CompositionFor(<<"comp-">> \o E1, <<EncounterReference(E1)>>, <<>>),
     CompositionFor(<<"comp-">> \o E2, <<EncounterReference(E2)>>,
                    <<Section(<<"History">>)>>),
     CompositionFor(<<"comp-">> \o E2, <<>>, <<Section(<<"A", "SSESSMENT">>)>>),
     MedicationRequestEntry(E1, {"medicationReference"}, NoConcept,
                            [reference |-> TypedRef("Medication", C1), display |-> Drug]),
     MedicationRequestEntry(E2, {"medicationCodeableConcept"},
                            [text |-> Drug, coding |-> <<>>], NoMedicationReference),
     [ClinicalEntry("Medication", C1) EXCEPT !.code = [text |-> Drug, coding |-> <<>>]]}

InitChecks ==
    \E k \in 0..MaxCheckedEntries :
        \E b \in [1..k -> CheckedEntries] :
            InitStage(b, "save_bundle")

NextChecks ==
    \/ SaveBundle
    \/ ValidateMedicationResources
    \/ ValidateMedicationRequest
    \/ ValidateCompositionForEncounters

SpecChecks == InitChecks /\ [][NextChecks]_vars

\* ------------------------- the conversion, followed by the three checks
NextGenerate ==
    \/ NextBuild
    \/ ConvertAllIds
    \/ UpdateAllReferences
    \/ ConvertMedicationCodeableConceptToReference
    \/ GenerateObservationsForDiagnosticReports
    \/ RemoveClinicalDocumentationDiagnosticReports
    \/ GenerateDiagnosticReportsForImagingStudies
    \/ GenerateCompositionsForEncounters
    \/ RemoveEmptyEncounters
    \/ GenerateBinaryResourcesForImagingStudies
    \/ RemoveSharedResources
    \/ SortEntries
    \/ SaveBundle
    \/ ValidateMedicationResources
    \/ ValidateMedicationRequest
    \/ ValidateCompositionForEncounters

SpecGenerate == InitGenerate /\ [][NextGenerate]_vars

\* =================================================================== claims
BuildReturned == pc = "convert_all_ids"

Issued(i) == assigned[i] # NoString

DistinctIds(b) == \A i, j \in DOMAIN b : i # j => b[i].id # b[j].id

\* C1: after build_uuid_mapping, two distinct bundle entities that received an
\* assigned identifier hold different assigned identifiers (stated for bundles
\* whose entities have pairwise distinct original ids).
C1_DistinctAssigned ==
    (BuildReturned /\ DistinctIds(snapshot)) =>
        \A i, j \in DOMAIN assigned :
            (i # j /\ Issued(i) /\ Issued(j)) => assigned[i] # assigned[j]

\* C2: during one run of build_uuid_mapping, the identifier stored under a key
\* of uuid_map never changes once the key has been entered.
C2_KeyNeverRemapped ==
    [][pc = "build_uuid_mapping" =>
         \A k \in DOMAIN uuid_map :
             k \in DOMAIN uuid_map' => uuid_map'[k] = uuid_map[k]]_vars

\* C3: every identifier issued for an entity of a type with an ID_RANGES entry
\* (Patient included), stripped of its prefix, lies in that type's [lo, hi].
C3_IssuedWithinRange ==
    \A i \in DOMAIN assigned :
        Issued(i) =>
            LET n == int(Tail(assigned[i]))
                range == ID_RANGES[bundle[i].resourceType]
            IN  range[1] <= n /\ n <= range[2]

\* C4: a non-Patient allocation probes forward from the random offset, wrapping
\* inside the type's range; it returns the first value in that order that is
\* not in the used set, or raises ValueError naming the type; the error is
\* raised exactly when every value of the range is used, and then nothing is
\* added to the mapping or to the used set.
C4_ProbeOrExhausted ==
    /\ pc = "failed" => last_alloc.result = None
    /\ last_alloc.type # "" =>
         LET lo == ID_RANGES[last_alloc.type][1]
             hi == ID_RANGES[last_alloc.type][2]
             size == hi - lo + 1
             dist(v) == (v - lo - last_alloc.offset + size) % size
             r == last_alloc.result
         IN  /\ (r = None) <=> (\A v \in lo..hi : v \in last_alloc.used)
             /\ r = None =>
                  /\ pc = "failed"
                  /\ error = last_alloc.type
                  /\ uuid_map = last_alloc.map
                  /\ all_used_ids = last_alloc.used
                  /\ ~Issued(last_alloc.entry)
             /\ r # None =>
                  /\ r \in lo..hi
                  /\ r \notin last_alloc.used
                  /\ r \in all_used_ids
                  /\ \A v \in lo..hi : dist(v) < dist(r) => v \in last_alloc.used
                  /\ assigned[last_alloc.entry] = AlphanumericId(last_alloc.type, r)

\* C4 witness: the range of a type was exhausted and the error names the type
C4_Exhausted ==
    /\ pc = "failed"
    /\ error = "Encounter"
    /\ last_alloc.type = "Encounter"
    /\ last_alloc.result = None
    /\ \A v \in ID_RANGES["Encounter"][1]..ID_RANGES["Encounter"][2] :
          v \in last_alloc.used

\* C5: every reference the rewriter changed to 'T/i' names an entity of the
\* bundle whose resourceType is T and whose id is i.
C5_ReferentialClosure ==
    pc = "done" =>
        \A p \in RefPositions(bundle) :
            RefAt(bundle, p) # RefAt(snapshot, p) =>
                \E k \in DOMAIN bundle :
                    /\ bundle[k].resourceType = RefAt(bundle, p).type
                    /\ bundle[k].id = RefAt(bundle, p).key

\* C6: a second run of the remapping over the bundle the first run produced
\* changes nothing.
C6_SecondRunChangesNothing ==
    (run = 2 /\ pc = "done") => bundle = snapshot

\* C7: a key that occurs n > 0 times in the XML before substitution occurs zero
\* times afterwards, and its assigned identifier occurs at least n times.
C7_TotalCountPreserving ==
    pc = "xml_saved" =>
        \A k \in DOMAIN uuid_map :
            count(xml_in, k) > 0 =>
                /\ count(xml_content, k) = 0
                /\ count(xml_content, uuid_map[k][1]) >= count(xml_in, k)

\* The document with every mapped token of the original-identity shape replaced
\* and every other character kept.
RECURSIVE ReplaceMappedTokens(_, _)
ReplaceMappedTokens(s, m) ==
    IF s = <<>> THEN s
    ELSE IF Len(s) >= 3 /\ UuidShape(SubSeq(s, 1, 3)) /\ SubSeq(s, 1, 3) \in DOMAIN m
         THEN m[SubSeq(s, 1, 3)][1] \o ReplaceMappedTokens(SubSeq(s, 4, Len(s)), m)
         ELSE <<Head(s)>> \o ReplaceMappedTokens(Tail(s), m)

\* C8: the XML substitution replaces only mapped tokens of the original-identity
\* shape; every other character of the document is unchanged.
C8_OnlyMappedTokensReplaced ==
    pc = "xml_saved" => xml_content = ReplaceMappedTokens(xml_in, uuid_map)

\* C9: an entity whose type has no ID_RANGES entry gets no identifier and keeps
\* its id, request and fullUrl through convert_all_ids (stated for bundles
\* whose entities have pairwise distinct ids).
C9_UnrangedUntouched ==
    (run = 1 /\ pc \in {"update_all_references", "done"} /\ DistinctIds(snapshot)) =>
        \A i \in DOMAIN bundle :
            (/\ snapshot[i].resourceType \notin DOMAIN ID_RANGES
             /\ snapshot[i].id # NoString
             /\ ~isdigit(snapshot[i].id)) =>
                /\ ~Issued(i)
                /\ bundle[i].id = snapshot[i].id
                /\ bundle[i].request = snapshot[i].request
                /\ bundle[i].fullUrl = snapshot[i].fullUrl

Carries(resource, v) == \E n \in DOMAIN resource.identifier : resource.identifier[n].value = v

\* C10: when build_uuid_mapping returns, the original id of an entity E is not
\* mapped to the identifier of a different entity F that carries that value
\* only as a natural-key identifier.
C10_IdNotClaimedByNaturalKey ==
    (run = 1 /\ BuildReturned) =>
        \A e, f \in DOMAIN bundle :
            (/\ e # f
             /\ bundle[e].id # NoString
             /\ ~isdigit(bundle[e].id)
             /\ bundle[e].id # bundle[f].id
             /\ Carries(bundle[f], bundle[e].id)
             /\ Issued(f)
             /\ assigned[e] # assigned[f]
             /\ bundle[e].id \in DOMAIN uuid_map)
            => uuid_map[bundle[e].id][1] # assigned[f]

\* C11: a reference 'urn:uuid:X' whose X is a key of uuid_map with value (a, T)
\* has become 'T/a' when update_all_references returns, and every entity whose
\* id was X has the id a.
C11_DirectLinkRewritten ==
    pc = "done" =>
        \A p \in RefPositions(snapshot) :
            LET ref == RefAt(snapshot, p)
            IN  (ref.form = "urn" /\ ref.key \in DOMAIN uuid_map) =>
                    /\ RefAt(bundle, p) =
                         TypedRef(uuid_map[ref.key][2], uuid_map[ref.key][1])
                    /\ \A i \in DOMAIN snapshot :
                         snapshot[i].id = ref.key => bundle[i].id = uuid_map[ref.key][1]

\* C12: a reference 'S/X' whose X is a key of uuid_map with value (a, T) has
\* become 'S/a' when update_all_references returns, with the type S it was
\* written with, and every other field of the reference dict is as it was.
C12_TypeQualifiedKeepsType ==
    pc = "done" =>
        \A p \in RefPositions(snapshot) :
            LET ref == RefAt(snapshot, p)
                obj == snapshot[p[1]].reference[p[2]]
            IN  (ref.form = "typed" /\ ref.key \in DOMAIN uuid_map) =>
                    bundle[p[1]].reference[p[2]] =
                        [obj EXCEPT !.reference = TypedRef(ref.type, uuid_map[ref.key][1])]

\* the step update_reference takes on the next reference dict, and that dict
AtReference == pc = "update_all_references" /\ idx <= Len(RefOrder(bundle))

NextRef == RefAt(bundle, RefOrder(bundle)[idx])

\* C13: the step on a reference 'S?identifier=system|V' whose V is a key of
\* uuid_map with value (a, T) replaces the whole reference by 'S/a' and adds
\* exactly one to reference_count and to conditional_ref_count.
C13_QueryStyleRewritten ==
    [][(AtReference /\ NextRef.form = "cond" /\ NextRef.key \in DOMAIN uuid_map) =>
         /\ RefAt(bundle', RefOrder(bundle)[idx]) =
              TypedRef(NextRef.type, uuid_map[NextRef.key][1])
         /\ reference_count' = reference_count + 1
         /\ conditional_ref_count' = conditional_ref_count + 1]_vars

\* C13 witness: a query-style reference naming another type than the mapped one,
\* by a value with a character outside [\w-], was rewritten and counted
C13_QueryStyleDone ==
    /\ pc = "done"
    /\ conditional_ref_count >= 1
    /\ \E p \in RefPositions(snapshot) :
         /\ RefAt(snapshot, p) = CondRef("Condition", N1)
         /\ N1 \in DOMAIN uuid_map
         /\ uuid_map[N1][2] = "Encounter"
         /\ RefAt(bundle, p) = TypedRef("Condition", uuid_map[N1][1])

\* the reference dicts whose 'reference' is no longer what it was
Replaced == {p \in RefPositions(snapshot) : RefAt(bundle, p) # RefAt(snapshot, p)}

\* C14: the step on a reference whose looked-up value is not a key of uuid_map
\* changes neither the bundle nor a counter; when update_all_references
\* returns, reference_count is the number of reference fields whose value was
\* replaced and conditional_ref_count the number of those that were query-style.
C14_UnresolvedLeftAlone ==
    /\ [][(AtReference /\ LookupKey(NextRef) \notin DOMAIN uuid_map) =>
            /\ bundle' = bundle
            /\ reference_count' = reference_count
            /\ conditional_ref_count' = conditional_ref_count
            /\ pc' = pc]_vars
    /\ [](pc = "done" =>
            /\ reference_count = Cardinality(Replaced)
            /\ conditional_ref_count =
                 Cardinality({p \in Replaced : RefAt(snapshot, p).form = "cond"}))

\* C14 witness: one reference was left as it was, unresolved, and another one,
\* query-style, was replaced
C14_UnresolvedSeen ==
    /\ pc = "done"
    /\ reference_count = 1
    /\ conditional_ref_count = 1
    /\ \E p \in RefPositions(snapshot) :
         /\ LookupKey(RefAt(snapshot, p)) \notin DOMAIN uuid_map
         /\ RefAt(bundle, p) = RefAt(snapshot, p)

ConvertAllIdsReturned == pc \in {"update_all_references", "done"}

\* C15: after convert_all_ids, an entry whose id was rewritten has the mapped
\* id, no fullUrl and a request.url that names no other id than the new one; if
\* its method was POST, the request is PUT 'ResourceType/<new id>'.  An entry
\* whose id is not a key of uuid_map is as it was.
C15_RequestNamesNewId ==
    ConvertAllIdsReturned =>
        \A i \in DOMAIN snapshot :
            IF snapshot[i].id # NoString /\ snapshot[i].id \in DOMAIN uuid_map
            THEN /\ bundle[i].id = uuid_map[snapshot[i].id][1]
                 /\ bundle[i].fullUrl = NoString
                 /\ bundle[i].request.url.id \in {NoString, bundle[i].id}
                 /\ snapshot[i].request.method = "POST" =>
                      bundle[i].request =
                          [method |-> "PUT",
                           url |-> [type |-> bundle[i].resourceType, id |-> bundle[i].id]]
            ELSE [bundle[i] EXCEPT !.reference = snapshot[i].reference] = snapshot[i]

Exited == pc = "exited"

Loaded == bundle_file.state = "ok"

C17_EveryCheckRuns ==
    (Exited /\ Loaded) =>
        /\ Len(results) = Len(validations)
        /\ \A n \in DOMAIN results : results[n].check_name = validations[n]

\* an entity other than a Medication has an id of 36 characters with 4 hyphens
LeftoverUuid(b) ==
    \E i \in DOMAIN b.entry :
        /\ b.entry[i].resourceType # "Medication"
        /\ b.entry[i].id.json = "string"
        /\ UuidFormat(b.entry[i].id.text)

ResourceIdsResults == {n \in DOMAIN results : results[n].check_name = "validate_resource_ids"}

\* C18: if an entity other than a Medication still has an id of the UUID shape,
\* the result of validate_resource_ids is not passed and the exit status is not 0.
C18_LeftoverUuidFails ==
    (Loaded /\ pc \in {"run_all_validations", "exited"} /\ LeftoverUuid(bundle)) =>
        /\ \A n \in ResourceIdsResults : ~results[n].passed
        /\ Exited => exit_status # 0

\* two entries with an id carry the same id string
DuplicateIds(b) ==
    \E i, j \in DOMAIN b.entry :
        /\ i # j
        /\ Truthy(b.entry[i].id)
        /\ Truthy(b.entry[j].id)
        /\ b.entry[i].id = b.entry[j].id

\* C19: the result of validate_resource_ids is not passed exactly when two
\* entries with an id carry the same id string, whatever their resource types;
\* it then holds one issue, and none otherwise.
C19_DuplicateIdsFail ==
    \A n \in ResourceIdsResults :
        /\ ~results[n].passed <=> DuplicateIds(bundle)
        /\ Len(results[n].issues) = IF DuplicateIds(bundle) THEN 1 ELSE 0

\* C19 witness: two entries of different types with the same id, one issue
C19_DuplicateSeen ==
    \E n \in ResourceIdsResults :
        /\ ~results[n].passed
        /\ Len(results[n].issues) = 1
        /\ Len(bundle.entry) = 2
        /\ bundle.entry[1].id = bundle.entry[2].id
        /\ bundle.entry[1].resourceType # bundle.entry[2].resourceType

\* an input identifier that is not Synthea, smarthealthit, thetarho.com or
\* UUID-valued
KeptIdentifier(id_obj) ==
    /\ ~In(<<"synthea">>, lower(id_obj.system))
    /\ ~In(<<"smarthealthit">>, lower(id_obj.system))
    /\ ~In(<<"thetarho.com">>, lower(id_obj.system))
    /\ ~uuid_pattern_match(id_obj.value)

\* C20: after add_identifiers, identifier[0] is the athena identifier
\* '<practice_id>.<prefix>-<id>' with the athena system; for a Patient
\* identifier[1] is the patient-id identifier; the remaining elements are the
\* input identifiers that are not Synthea, smarthealthit, thetarho.com or
\* UUID-valued, in their original order (so validate_identifier_order lists
\* nothing); a second application leaves the list as the first one made it.
C20_IdentifierOrder ==
    /\ []((pc = "add_identifiers" /\ run >= 2) =>
            \A i \in DOMAIN bundle :
                LET resource == bundle[i]
                    identifiers == resource.identifier
                    fixed == IF resource.resourceType = "Patient" THEN 2 ELSE 1
                IN  /\ Len(identifiers) >= fixed
                    /\ identifiers[1] =
                         [system |-> AthenaSystem,
                          value |-> practice_id \o <<".">>
                                      \o AthenaPrefix(resource.resourceType)
                                      \o <<"-">> \o resource.id]
                    /\ resource.resourceType = "Patient" =>
                         identifiers[2] = [system |-> PatientSystem, value |-> resource.id]
                    /\ SubSeq(identifiers, fixed + 1, Len(identifiers)) =
                         SelectSeq(snapshot[i].identifier, KeptIdentifier)
                    /\ ~WrongIdentifierOrder(resource))
    /\ [][(pc = "add_identifiers" /\ run = 2) => bundle' = bundle]_vars

\* C20 witness: a Patient that came with a Synthea identifier, a stale athena
\* identifier or a UUID value and with two identifiers to keep went through
\* add_identifiers twice
C20_AppliedTwice ==
    /\ pc = "add_identifiers"
    /\ run = 3
    /\ \E i \in DOMAIN bundle :
         /\ bundle[i].resourceType = "Patient"
         /\ Len(snapshot[i].identifier) = 3
         /\ ~KeptIdentifier(snapshot[i].identifier[2])
         /\ Len(bundle[i].identifier) = 4
         /\ bundle[i].identifier[3] = snapshot[i].identifier[1]
         /\ bundle[i].identifier[4] = snapshot[i].identifier[3]

\* the entries of b whose rank is r, in the order of b
OfRank(b, r) ==
    LET HasRank(e) == get_sort_key(e) = r
    IN  SelectSeq(b, HasRank)

Written == bundle_file.content.entry

\* C21: the written bundle holds the entries that are not shared resources, in
\* non-decreasing RESOURCE_ORDER rank and in input order inside each rank; no
\* MedicationRequest or MedicationAdministration precedes a Medication, nothing
\* precedes a Patient, and validate_bundle_dependency_order passes on it.
C21_SortedByDependency ==
    pc \in {"saved", "validated"} =>
        /\ \A i, j \in DOMAIN Written :
              i < j => get_sort_key(Written[i]) <= get_sort_key(Written[j])
        /\ \A r \in {get_sort_key(snapshot[i]) : i \in DOMAIN snapshot} :
              OfRank(Written, r)
                = OfRank([i \in DOMAIN SelectSeq(snapshot, NotShared) |->
                            JsonEntry(SelectSeq(snapshot, NotShared)[i])], r)
        /\ Len(Written) = Len(SelectSeq(snapshot, NotShared))
        /\ \A i, j \in DOMAIN Written :
              (/\ i < j
               /\ Written[i].resourceType \in {"MedicationRequest", "MedicationAdministration"})
                  => Written[j].resourceType # "Medication"
        /\ \A i, j \in DOMAIN Written :
              (i < j /\ Written[i].resourceType # "Patient")
                  => Written[j].resourceType # "Patient"
        /\ pc = "validated" => results[1].passed /\ results[1].issues = <<>>

\* a bundle that came with a MedicationRequest ahead of its Medication and an
\* Encounter ahead of the Patient has been sorted, written and validated
C21_Reordered ==
    /\ pc = "validated"
    /\ Len(snapshot) = 3
    /\ snapshot[1].resourceType \in {"MedicationRequest", "Encounter"}
    /\ snapshot[2].resourceType \in {"MedicationRequest", "Encounter", "Organization"}
    /\ snapshot[3].resourceType \in {"Medication", "Patient"}
    /\ bundle # snapshot
    /\ results[1].passed

\* ids of the encounters that remove_empty_encounters took out of the bundle
RemovedEncounters ==
    {snapshot[i].id : i \in {j \in DOMAIN snapshot : snapshot[j].resourceType = "Encounter"}}
      \ {bundle[i].id : i \in {j \in DOMAIN bundle : bundle[j].resourceType = "Encounter"}}

\* C22: after remove_empty_encounters no remaining resource of a tracked type
\* references a removed Encounter, and the dangling-reference check passes on
\* the result whenever it passed before the removal.
C22_NoReferenceToRemoved ==
    /\ pc \in {"encounters_removed", "removal_validated"} =>
          \A i \in DOMAIN bundle :
              \A n \in DOMAIN encounter_refs(bundle[i]) :
                  encounter_refs(bundle[i])[n] \notin RemovedEncounters
    /\ pc = "removal_validated" => (results[1].passed => results[2].passed)

\* the stages of the addon workflow, cleanup apart, in the order main runs them
WorkflowStages ==
    <<"move_addon_to_modules", "generate_synthea_ccda", "fetch_patient_from_fhir",
      "fetch_organization_from_fhir", "process_ccda_xml", "save_final_xml">>

\* the outcomes with which a stage has succeeded
Succeeded(entry) ==
    entry.outcome \in {"copied", "generated", "found", "unknown practice", "processed",
                       "saved", "ok"}

StagesRun ==
    LET NotCleanup(entry) == entry.stage # "cleanup_addon_from_modules"
    IN  SelectSeq(stages, NotCleanup)

\* C23: a stage that failed is the last stage of the workflow to run and main
\* ends at once with a non-zero status; status 0 is returned only after the six
\* stages have run in order and succeeded.
C23_FailedStageEndsRun ==
    /\ \A n \in DOMAIN StagesRun :
          /\ StagesRun[n].stage = WorkflowStages[n]
          /\ ~Succeeded(StagesRun[n]) =>
                /\ n = Len(StagesRun)
                /\ pc = "exited"
                /\ exit_status # 0
                /\ exit_status # None
    /\ (pc = "exited" /\ exit_status = 0) =>
          /\ Len(StagesRun) = Len(WorkflowStages)
          /\ \A n \in DOMAIN StagesRun : Succeeded(StagesRun[n])

\* the generator timed out and main has ended
C23_GeneratorTimedOut ==
    /\ pc = "exited"
    /\ exit_status = 1
    /\ Len(StagesRun) = 2
    /\ StagesRun[2] = [stage |-> "generate_synthea_ccda", outcome |-> "timed out"]

Copied == \E n \in DOMAIN stages : stages[n] = [stage |-> "move_addon_to_modules", outcome |-> "copied"]

\* C29: when main has ended after the addon module was copied,
\* cleanup_addon_from_modules has been called; an encounter date that is
\* invalid, in the future or too old ends main with status 1 before any stage.
C29_CleanupOnEveryPath ==
    pc = "exited" =>
        /\ Copied => \E n \in DOMAIN stages : stages[n].stage = "cleanup_addon_from_modules"
        /\ ~EncounterDateAccepted(args) =>
              exit_status = 1 /\ stages = <<>> /\ modules_folder = {}

\* the resources of type t of the input, in input order
InputOfType(t) ==
    LET HasType(resource) == resource.resourceType = t
    IN  SelectSeq(bundle, HasType)

\* the files that hold a resource of type t
FilesOfType(t) ==
    {f \in DOMAIN files : \E n \in DOMAIN files[f] : files[f][n].resource.resourceType = t}

\* C24: when the split is done every input resource with a resourceType is in
\* exactly one file, the one of its type, in input order and wrapped with
\* request PUT 'ResourceType/id'; nothing is dropped and nothing is doubled.
C24_SplitPartitions ==
    pc = "split_done" =>
        \A t \in {bundle[i].resourceType : i \in DOMAIN bundle} \ {""} :
            \E f \in DOMAIN files :
                /\ FilesOfType(t) = {f}
                /\ [n \in DOMAIN files[f] |-> files[f][n].resource] = InputOfType(t)
                /\ \A n \in DOMAIN files[f] :
                      files[f][n].request =
                          [method |-> "PUT",
                           url |-> <<t, "/", files[f][n].resource.id>>]

\* every dict of before, at any depth, whose reference resolves in m holds the
\* rewritten reference in after
RECURSIVE AllRewritten(_, _, _)
AllRewritten(before, after, m) ==
    /\ (before.kind = "dict" /\ before.reference # NoRef /\ Resolves(before.reference, m))
          => after.reference = UpdateReference(before.reference, m)
    /\ \A n \in DOMAIN before.values : AllRewritten(before.values[n], after.values[n], m)

\* C25: after update_all_references every dict nested at any depth in a
\* resource whose 'reference' resolves in the mapping has been rewritten, also
\* below a dict whose own reference is query-style.
C25_EveryNestedDictVisited ==
    pc = "done" =>
        \A i \in DOMAIN bundle :
            AllRewritten(snapshot[i].resource, bundle[i].resource, uuid_map)

\* ---------------------------------------------------------------------- C26
Distinct(entries) ==
    \A i, j \in DOMAIN entries : i # j => entries[i].id # entries[j].id

\* C26: the identifiers created by the later steps (Observations and Binaries
\* numbered from the start of their range, imaging DiagnosticReports from the
\* range start plus the offset, 'med-' and 'comp-' identifiers) equal the id of
\* no other entity: when the entities of the input have pairwise distinct ids,
\* so have the entries of the bundle that is written, whatever the allocator drew.
C26_CreatedIdsDistinct ==
    (pc = "saved" /\ Distinct(snapshot)) => Distinct(bundle)

\* ---------------------------------------------------------------------- C27
\* C27: in the written bundle every entry with an id and a request asks for
\* PUT 'ResourceType/<id>', the entries created after convert_all_ids included.
C27_EveryEntryIsPut ==
    pc = "saved" =>
        \A i \in DOMAIN bundle :
            bundle[i].id # NoString =>
                /\ bundle[i].request.method = "PUT"
                /\ bundle[i].request.url =
                      [type |-> bundle[i].resourceType, id |-> bundle[i].id]

\* ---------------------------------------------------------------------- C28
\* C28: a result returned by a check that holds a critical issue has
\* passed = FALSE: no check sets passed to TRUE after add_issue.
C28_IssueMeansNotPassed ==
    \A n \in DOMAIN results : results[n].issues # <<>> => ~results[n].passed

\* ---------------------------------------------------------------------- C30
HadConcept(resource) ==
    /\ resource.resourceType = "MedicationRequest"
    /\ "medicationCodeableConcept" \in resource.keys

\* the Medication entries appended by the conversion that have the id med_id
AppendedMedications(med_id) ==
    {j \in DOMAIN bundle : /\ j > Len(snapshot)
                           /\ bundle[j].resourceType = "Medication"
                           /\ bundle[j].id = med_id}

\* C30: for an input with pairwise distinct ids, after
\* convert_medication_codeable_concept_to_reference no MedicationRequest has
\* medicationCodeableConcept, every request that had one refers to
\* 'Medication/med-<request id>' with a non-empty display, and one Medication
\* with that id was appended; in the written bundle the referenced Medication
\* precedes the request, and when every request of the input had a
\* medicationCodeableConcept, validate_medication_resources and
\* validate_medication_request pass.
C30_ConceptsBecomeReferences ==
    Distinct(snapshot) =>
        /\ pc = "generate_observations_for_diagnostic_reports" =>
             /\ \A i \in DOMAIN bundle : ~HadConcept(bundle[i])
             /\ \A i \in DOMAIN snapshot :
                   HadConcept(snapshot[i]) =>
                       /\ bundle[i].medicationReference.reference =
                             TypedRef("Medication", <<"med-">> \o bundle[i].id)
                       /\ bundle[i].medicationReference.display # NoString
                       /\ Cardinality(AppendedMedications(<<"med-">> \o bundle[i].id)) = 1
        /\ pc = "checked" =>
             /\ \A i \in DOMAIN bundle :
                   (/\ bundle[i].resourceType = "MedicationRequest"
                    /\ bundle[i].medicationReference.reference =
                          TypedRef("Medication", <<"med-">> \o bundle[i].id)) =>
                       \E j \in 1..(i - 1) : /\ bundle[j].resourceType = "Medication"
                                             /\ bundle[j].id = <<"med-">> \o bundle[i].id
             /\ (\A i \in DOMAIN snapshot :
                    snapshot[i].resourceType = "MedicationRequest" => HadConcept(snapshot[i]))
                   => results[1].passed /\ results[2].passed

====
